---- MODULE Spec2Model ----
(***************************************************************************)
(* The debug-bundle service of src/v/debug_bundle/debug_bundle_service.cc: *)
(* one service instance per shard, the instance on service_shard owning    *)
(* the child process handle (_rpk_process), the control mutex, the gate,   *)
(* the files of a run and the one key of the KV store.                     *)
(*                                                                         *)
(* Every action is the code between two suspension points (co_await) of   *)
(* one coroutine: a shard runs cooperatively, so that code is atomic.     *)
(***************************************************************************)
EXTENDS Integers, Sequences, FiniteSets, TLC

\* ------------------------------------------------------------------ bounds
NumShards == 2
MaxRuns == 2
MaxOps == 3
MaxFaults == 1

\* --------------------------------------------------------------- constants
service_shard == 0

Shards == 0 .. (NumShards - 1)
JobIds == {1, 2}
Insts == 1 .. MaxRuns

OpNames == {"initiate", "cancel", "status", "path", "delete"}

VARIABLES
    rpk_process,      \* the handle slot _rpk_process of the service shard
    child,            \* external process of every handle ever installed
    bg,               \* the background wait task of every handle
    files,            \* the paths that exist on disk
    kvstore,          \* the entry under debug_bundle_metadata_key
    kv_rollback,      \* a background kvstore remove issued and not yet done
    mutex,            \* _process_control_mutex: holder first, then waiters
    gate_count,       \* _gate of every shard: tickets held
    gate_closed,      \* _gate of every shard: close() was called
    stop_pc,          \* service::stop() of every shard
    ops,              \* the public operation in flight of every caller
    stop_inst,        \* the handle whose terminate() stop() awaits
    nruns,            \* handles installed so far
    nops,             \* public operations called and configuration changes
                      \* made so far
    nfaults,          \* failures of collaborators so far
    aborted,          \* the vassert that ended the program, or "none"
    params,           \* debug_bundle_parameters handed to build_rpk_arguments
    args,             \* what build_rpk_arguments returned
    log_msg,          \* the text print_arguments put into the debug log
    argv_pc,          \* position in the argument building of initiate
    debug_bundle_storage_dir, \* the cluster property debug_bundle_storage_dir
    debug_bundle_dir, \* _debug_bundle_dir of the service-shard instance
    rpk_path_binding, \* the value _rpk_path_binding() yields
    dirs              \* the directories on disk

vars == <<rpk_process, child, bg, files, kvstore, kv_rollback, mutex,
          gate_count, gate_closed, stop_pc, stop_inst, ops,
          nruns, nops, nfaults, aborted, params, args, log_msg, argv_pc,
          debug_bundle_storage_dir, debug_bundle_dir, rpk_path_binding, dirs>>

argv_vars == <<params, args, log_msg, argv_pc>>

config_vars == <<debug_bundle_storage_dir, debug_bundle_dir, rpk_path_binding>>

service_vars == <<rpk_process, child, bg, files, kvstore, kv_rollback, mutex,
                  gate_count, gate_closed, stop_pc, stop_inst, ops,
                  nruns, nops, nfaults, aborted, dirs>>

\* ------------------------------------------------------------- data model
\* A path is the sequence of its components; a file name is the job id and
\* the extension fmt::format puts behind it.
form_debug_bundle_file_name(job_id) == <<job_id, "zip">>
form_process_output_file_name(job_id) == <<job_id, "out">>

form_debug_bundle_file_path(base_path, job_id) ==
    Append(base_path, form_debug_bundle_file_name(job_id))
form_process_output_file_path(base_path, job_id) ==
    Append(base_path, form_process_output_file_name(job_id))

\* config::node().data_directory and service::debug_bundle_dir_name.
data_directory == <<"data">>
debug_bundle_dir_name == "debug-bundle"

\* std::optional: has_value() and value().
nullopt(default) == [has_value |-> FALSE, value |-> default]
optional(v) == [has_value |-> TRUE, value |-> v]

\* The values the property debug_bundle_storage_dir takes.
StorageDirs == {nullopt(<<>>), optional(<<"mnt", "bundles">>)}

\* form_debug_bundle_storage_directory() under the property value cfg.
form_debug_bundle_storage_directory(cfg) ==
    IF cfg.has_value THEN cfg.value
    ELSE Append(data_directory, debug_bundle_dir_name)

\* The path members of a slot that holds no handle are of no account.
NoDir == form_debug_bundle_storage_directory(nullopt(<<>>))

\* shard is the shard of the service instance whose _rpk_process holds the
\* handle (of no account in the empty slot).
NoProcess ==
    [inst |-> 0, job_id |-> 0, wait_result |-> "none", shard |-> service_shard,
     output_file_path |-> form_debug_bundle_file_path(NoDir, 0),
     process_output_file_path |-> form_process_output_file_path(NoDir, 0)]

debug_bundle_process(i, job_id, output_file_path, process_output_file_path) ==
    [inst |-> i, job_id |-> job_id, wait_result |-> "none",
     shard |-> service_shard,
     output_file_path |-> output_file_path,
     process_output_file_path |-> process_output_file_path]

NoMetadata ==
    [job_id |-> 0, debug_bundle_file |-> form_debug_bundle_file_path(NoDir, 0),
     wait_status |-> "none", checksum |-> "empty"]

metadata(job_id, p, sha) ==
    [job_id |-> job_id, debug_bundle_file |-> p.output_file_path,
     wait_status |-> p.wait_result, checksum |-> sha]

NoSnap == [job_id |-> 0, status |-> "",
           file_name |-> form_debug_bundle_file_path(NoDir, 0),
           file_size |-> FALSE]

\* The files on disk and the KV entry.
Artifacts(fs, kv) == [files |-> fs, kvstore |-> kv]

\* shard is the shard the coroutine of the operation runs on; before is what
\* an initiate found on disk and in the KV store when it passed its checks;
\* checked is the path initiate handed to file_exists, output_dir its local
\* copy of _debug_bundle_dir and argv0 the first element of the arguments
\* build_rpk_arguments returned to it.
IdleOp == [op |-> "none", pc |-> "idle", job_id |-> 0, res |-> "",
           status |-> "", inst |-> 0, snap |-> NoSnap,
           shard |-> service_shard, before |-> Artifacts({}, NoMetadata),
           checked |-> <<>>, output_dir |-> <<>>, argv0 |-> <<>>]

NewOp(o, p, j) == [IdleOp EXCEPT !.op = o, !.pc = p, !.job_id = j]

\* job_id and output_file_path are the job id and the --output path of the
\* child the task waits for.
NoTask == [pc |-> "none", job_id |-> 0,
           output_file_path |-> form_debug_bundle_file_path(NoDir, 0)]

\* ------------------------------------------------------------ pure helpers
was_run_successful(wait_status) == wait_status = "exited_0"

\* Mutant: every exited child counts as a success.
handle_process_status_any_exit(p) ==
    IF p.wait_result # "none"
    THEN IF p.wait_result = "signaled" THEN "error" ELSE "success"
    ELSE "running"

handle_process_status(p) ==
    IF p.wait_result # "none"
    THEN IF p.wait_result = "exited_0" THEN "success" ELSE "error"
    ELSE "running"

\* Mutant: the status is taken from the slot without the null check.
process_status_unchecked == handle_process_status(rpk_process)

process_status ==
    IF rpk_process = NoProcess THEN "nullopt"
    ELSE handle_process_status(rpk_process)

\* Mutant: no handle ever counts as running.
is_running_never == FALSE

\* Mutant: a handle counts as running for as long as it is in the slot.
is_running_once_started == rpk_process # NoProcess

is_running ==
    IF rpk_process = NoProcess THEN FALSE
    ELSE handle_process_status(rpk_process) = "running"

\* The three operations that take `auto hold = _gate.hold()` on entry.
\* Mutant: the operation runs on the shard it was called on.
NotRouted(c) == c

\* The shard the body of an operation called on shard c runs on: the
\* instance of another shard forwards the call with invoke_on.
RoutedShard(c) == IF c # service_shard THEN service_shard ELSE c

HoldsGate(o) == o \in {"initiate", "cancel", "status"}

Alive == aborted = "none"

OpId(c) == <<"op", c>>
TaskId(i) == <<"bg", i>>

\* Mutant: the units go to any waiter, not to the first.
HasUnitsAnyWaiter(id) == \E n \in 1 .. Len(mutex) : mutex[n] = id

HasUnits(id) == mutex # <<>> /\ Head(mutex) = id

\* gate_count after the service-shard gate changed by dS and, for a caller on
\* another shard, that shard's gate by dL.
GateAdd(c, dS, dL) ==
    [s \in Shards |->
        gate_count[s]
        + (IF s = service_shard THEN dS ELSE 0)
        + (IF s = c /\ c # service_shard THEN dL ELSE 0)]

\* The operation of caller c returns r: its gate tickets are released.
Return(c, r) ==
    /\ ops' = [ops EXCEPT ![c].pc = "done", ![c].res = r,
                           ![c].status = "", ![c].inst = 0,
                           ![c].shard = c,
                           ![c].before = IdleOp.before,
                           ![c].checked = <<>>,
                           ![c].output_dir = <<>>,
                           ![c].argv0 = <<>>]
    /\ gate_count' = IF HoldsGate(ops[c].op) THEN GateAdd(c, -1, -1)
                     ELSE gate_count

\* ... and its mutex units as well.
ReturnUnlock(c, r) ==
    /\ Return(c, r)
    /\ mutex' = Tail(mutex)

\* ------------------------------------------------- the argument builder
\* A string is the sequence of its characters.

output_variable == <<"-", "-", "o", "u", "t", "p", "u", "t">>
verbose_variable == <<"-", "-", "v", "e", "r", "b", "o", "s", "e">>
username_variable == <<"-", "X", "u", "s", "e", "r">>
password_variable == <<"-", "X", "p", "a", "s", "s">>
sasl_mechanism_variable ==
    <<"-", "X", "s", "a", "s", "l", ".", "m", "e", "c", "h", "a", "n", "i", "s", "m">>
controller_logs_size_limit_variable ==
    <<"-", "-", "c", "o", "n", "t", "r", "o", "l", "l", "e", "r", "-", "l", "o", "g", "s", "-", "s", "i", "z", "e", "-", "l", "i", "m", "i", "t">>
cpu_profiler_wait_variable ==
    <<"-", "-", "c", "p", "u", "-", "p", "r", "o", "f", "i", "l", "e", "r", "-", "w", "a", "i", "t">>
logs_since_variable ==
    <<"-", "-", "l", "o", "g", "s", "-", "s", "i", "n", "c", "e">>
logs_size_limit_variable ==
    <<"-", "-", "l", "o", "g", "s", "-", "s", "i", "z", "e", "-", "l", "i", "m", "i", "t">>
logs_until_variable ==
    <<"-", "-", "l", "o", "g", "s", "-", "u", "n", "t", "i", "l">>
metrics_interval_variable ==
    <<"-", "-", "m", "e", "t", "r", "i", "c", "s", "-", "i", "n", "t", "e", "r", "v", "a", "l">>
partition_variable ==
    <<"-", "-", "p", "a", "r", "t", "i", "t", "i", "o", "n">>
tls_enabled_variable ==
    <<"-", "X", "t", "l", "s", ".", "e", "n", "a", "b", "l", "e", "d">>
tls_insecure_skip_verify_variable ==
    <<"-", "X", "t", "l", "s", ".", "i", "n", "s", "e", "c", "u", "r", "e", "_", "s", "k", "i", "p", "_", "v", "e", "r", "i", "f", "y">>
k8s_namespace_variable ==
    <<"-", "-", "n", "a", "m", "e", "s", "p", "a", "c", "e">>

\* _rpk_path_binding().native() and the bundle path initiate forms.
rpk_path == <<"/", "b", "i", "n", "/", "r", "p", "k">>

\* The values the property rpk_path takes.
RpkPaths == {rpk_path, <<"/", "o", "p", "t", "/", "r", "p", "k">>}
debug_bundle_file_path == <<"/", "d", "/", "7", ".", "z", "i", "p">>

Digits == <<"0", "1", "2", "3", "4", "5", "6", "7", "8", "9">>

\* fmt's "{}" of an unsigned integer: base 10, no padding.
RECURSIVE format_unsigned(_)
format_unsigned(n) ==
    IF n < 10 THEN <<Digits[n + 1]>>
    ELSE format_unsigned(n \div 10) \o <<Digits[(n % 10) + 1]>>

\* fmt's "{}" of a bool.
format_bool(b) == IF b THEN <<"t", "r", "u", "e">> ELSE <<"f", "a", "l", "s", "e">>

\* fmt::join(range, sep).
RECURSIVE join(_, _)
join(range, sep) ==
    IF range = <<>> THEN <<>>
    ELSE IF Len(range) = 1 THEN range[1]
    ELSE range[1] \o sep \o join(Tail(range), sep)

\* ss::sstring::find(needle) != npos.
find(arg, needle) ==
    \E i \in 1 .. (Len(arg) - Len(needle) + 1) :
        SubSeq(arg, i, i + Len(needle) - 1) = needle

\* Mutant: only an argument that begins with the password flag is sensitive.
contains_sensitive_info_prefix(arg) ==
    /\ Len(arg) >= Len(password_variable)
    /\ SubSeq(arg, 1, Len(password_variable)) = password_variable

contains_sensitive_info(arg) == find(arg, password_variable)

\* boost::algorithm::join_if(args, " ", pred): rolls to the first element
\* that satisfies pred, adds it, then adds the separator and the element for
\* every later element that satisfies pred.
RECURSIVE join_if(_, _, _)
join_if(input, started, result) ==
    IF input = <<>> THEN result
    ELSE IF contains_sensitive_info(Head(input))
    THEN join_if(Tail(input), started, result)
    ELSE IF ~started
    THEN join_if(Tail(input), TRUE, result \o Head(input))
    ELSE join_if(Tail(input), TRUE, result \o <<" ">> \o Head(input))

LogPrefix == <<"S", "t", "a", "r", "t", "i", "n", "g", " ", "R", "P", "K", " ", "d", "e", "b", "u", "g", " ", "b", "u", "n", "d", "l", "e", ":", " ">>

\* The line print_arguments hands to vlog(lg.debug, ...).
print_arguments(argv) == LogPrefix \o join_if(argv, FALSE, <<>>)


Lower ==
    {"a", "b", "c", "d", "e", "f", "g", "h", "i", "j", "k", "l", "m"}
    \cup {"n", "o", "p", "q", "r", "s", "t", "u", "v", "w", "x", "y", "z"}
Upper ==
    {"A", "B", "C", "D", "E", "F", "G", "H", "I", "J", "K", "L", "M"}
    \cup {"N", "O", "P", "Q", "R", "S", "T", "U", "V", "W", "X", "Y", "Z"}
Digit == {Digits[d] : d \in 1 .. 10}

\* The character classes of rfc1123_pattern.
AlnumClass(ch) == ch \in Lower \cup Upper \cup Digit
AlnumDashClass(ch) == AlnumClass(ch) \/ ch = "-"

\* Mutant: the pattern without its trailing [a-zA-Z0-9].
is_valid_rfc1123_no_tail(ns) ==
    /\ Len(ns) >= 1
    /\ AlnumClass(ns[1])
    /\ \E k \in 0 .. 62 :
        /\ Len(ns) = 1 + k
        /\ \A n \in 2 .. (1 + k) : AlnumDashClass(ns[n])

\* RE2::FullMatch(ns, "^([a-zA-Z0-9]([a-zA-Z0-9-]{0,61}[a-zA-Z0-9])?)"):
\* one alphanumeric, then optionally k in 0..61 characters of the inner
\* class and one alphanumeric, and nothing after.
is_valid_rfc1123(ns) ==
    /\ Len(ns) >= 1
    /\ AlnumClass(ns[1])
    /\ \/ Len(ns) = 1
       \/ \E k \in 0 .. 61 :
            /\ Len(ns) = 1 + k + 1
            /\ \A n \in 2 .. (1 + k) : AlnumDashClass(ns[n])
            /\ AlnumClass(ns[1 + k + 1])

max_ns_length == 63

is_valid_k8s_namespace(ns) ==
    ns # <<>> /\ Len(ns) <= max_ns_length /\ is_valid_rfc1123(ns)

\* Mutant: a byte count is formatted without its unit.
bytes_argument_no_unit(n) == format_unsigned(n)

\* ssx::sformat("{}B", n) and ssx::sformat("{}s", d.count()).
bytes_argument(n) == format_unsigned(n) \o <<"B">>
seconds_argument(n) == format_unsigned(n) \o <<"s">>

\* ssx::sformat("{}={}", key, value).
key_value(key, value) == key \o <<"=">> \o value

Ok(rv) == [error |-> "", rv |-> rv]
error_info(code) == [error |-> code, rv |-> <<>>]

build_rpk_arguments(path, p) ==
    LET rv0 == <<rpk_path_binding, <<"d", "e", "b", "u", "g">>, <<"b", "u", "n", "d", "l", "e">>>>
               \o <<output_variable>> \o <<path>> \o <<verbose_variable>>
        rv1 == IF p.authn_options.has_value
               THEN rv0 \o <<key_value(username_variable,
                                        p.authn_options.value.username)>>
                        \o <<key_value(password_variable,
                                        p.authn_options.value.password)>>
                        \o <<key_value(sasl_mechanism_variable,
                                        p.authn_options.value.mechanism)>>
               ELSE rv0
        rv2 == IF p.controller_logs_size_limit_bytes.has_value
               THEN rv1 \o <<controller_logs_size_limit_variable>>
                        \o <<bytes_argument(
                               p.controller_logs_size_limit_bytes.value)>>
               ELSE rv1
        rv3 == IF p.cpu_profiler_wait_seconds.has_value
               THEN rv2 \o <<cpu_profiler_wait_variable>>
                        \o <<seconds_argument(
                               p.cpu_profiler_wait_seconds.value)>>
               ELSE rv2
        rv4 == IF p.logs_since.has_value
               THEN rv3 \o <<logs_since_variable>> \o <<p.logs_since.value>>
               ELSE rv3
        rv5 == IF p.logs_size_limit_bytes.has_value
               THEN rv4 \o <<logs_size_limit_variable>>
                        \o <<bytes_argument(p.logs_size_limit_bytes.value)>>
               ELSE rv4
        rv6 == IF p.logs_until.has_value
               THEN rv5 \o <<logs_until_variable>> \o <<p.logs_until.value>>
               ELSE rv5
        rv7 == IF p.metrics_interval_seconds.has_value
               THEN rv6 \o <<metrics_interval_variable>>
                        \o <<seconds_argument(
                               p.metrics_interval_seconds.value)>>
               ELSE rv6
        rv8 == IF p.partition.has_value
               THEN rv7 \o <<partition_variable>>
                        \o <<join(p.partition.value, <<" ">>)>>
               ELSE rv7
        rv9 == IF p.tls_enabled.has_value
               THEN rv8 \o <<key_value(tls_enabled_variable,
                                        format_bool(p.tls_enabled.value))>>
               ELSE rv8
        rv10 == IF p.tls_insecure_skip_verify.has_value
                THEN rv9 \o <<key_value(tls_insecure_skip_verify_variable,
                                format_bool(p.tls_insecure_skip_verify.value))>>
                ELSE rv9
    IN  IF p.k8s_namespace.has_value
        THEN IF ~is_valid_k8s_namespace(p.k8s_namespace.value)
             THEN error_info("invalid_parameters")
             ELSE Ok(rv10 \o <<k8s_namespace_variable>>
                          \o <<p.k8s_namespace.value>>)
        ELSE Ok(rv10)

\* ---------------------------------------- inputs of the argument builder
\* The value profiles of ProfileValue.
Profiles == 1 .. 3
MaxNum == 120
MaxShort == 3

Fields ==
    {"authn_options", "controller_logs_size_limit_bytes",
     "cpu_profiler_wait_seconds", "logs_since", "logs_size_limit_bytes",
     "logs_until", "metrics_interval_seconds", "partition", "tls_enabled",
     "tls_insecure_skip_verify", "k8s_namespace"}

scram_creds(u, p, m) == [username |-> u, password |-> p, mechanism |-> m]

\* The value profile k gives to field f.
ProfileValue(f, k) ==
    CASE f = "authn_options" ->
           <<scram_creds(<<"u">>, <<"p", "w">>, <<"S", "C", "R", "A", "M", "-", "S", "H", "A", "-", "2", "5", "6">>),
             scram_creds(<<"-", "X", "p", "a", "s", "s">>, <<"p", " ", "w">>, <<"S", "C", "R", "A", "M", "-", "S", "H", "A", "-", "5", "1", "2">>),
             scram_creds(<<"a">>, <<>>, <<"S", "C", "R", "A", "M", "-", "S", "H", "A", "-", "2", "5", "6">>)>>[k]
      [] f = "controller_logs_size_limit_bytes" -> <<0, 10, MaxNum>>[k]
      [] f = "cpu_profiler_wait_seconds" -> <<1, 60, MaxNum + 1>>[k]
      [] f = "logs_since" -> <<<<"y", "e", "s", "t", "e", "r", "d", "a", "y">>, <<"2", "0", "2", "4", "-", "0", "1", "-", "0", "1">>, <<"-", "1", "h">>>>[k]
      [] f = "logs_size_limit_bytes" -> <<5, 100, 2 * MaxNum>>[k]
      [] f = "logs_until" -> <<<<"n", "o", "w">>, <<"2", "0", "2", "4", "-", "0", "2", "-", "0", "1">>, <<"-", "X", "p", "a", "s", "s">>>>[k]
      [] f = "metrics_interval_seconds" -> <<2, 30, MaxNum + 2>>[k]
      [] f = "partition" ->
           <<<<<<"k", "a", "f", "k", "a", "/", "t", "/", "0">>>>, <<<<"k", "a", "f", "k", "a", "/", "t", "/", "0", ",", "1">>, <<"k", "/", "u", "/", "2">>>>, <<>>>>[k]
      [] f = "tls_enabled" -> <<TRUE, FALSE, TRUE>>[k]
      [] f = "tls_insecure_skip_verify" -> <<FALSE, TRUE, TRUE>>[k]
      [] f = "k8s_namespace" -> <<<<"n", "s", "-", "1">>, <<"a">>, <<"-", "a">>>>[k]

\* The value a default-constructed field of that type holds.
DefaultValue(f) ==
    CASE f = "authn_options" -> scram_creds(<<>>, <<>>, <<>>)
      [] f \in {"controller_logs_size_limit_bytes",
                "cpu_profiler_wait_seconds", "logs_size_limit_bytes",
                "metrics_interval_seconds"} -> 0
      [] f \in {"tls_enabled", "tls_insecure_skip_verify"} -> FALSE
      [] OTHER -> <<>>

\* debug_bundle_parameters with the fields of set S holding profile k.
debug_bundle_parameters(S, k) ==
    [f \in Fields |-> IF f \in S THEN optional(ProfileValue(f, k))
                      ELSE nullopt(DefaultValue(f))]

NsChars == {"a", "Z", "9", "-", "_"}

ShortNs == UNION {[1 .. n -> NsChars] : n \in 0 .. MaxShort}

LongLens == (max_ns_length - 1) .. (max_ns_length + 2)

LongNs ==
    {<<f>> \o [n \in 1 .. (len - 2) |-> m] \o <<l>> :
        f \in NsChars, m \in NsChars, l \in NsChars, len \in LongLens}

ParamInputs ==
    {debug_bundle_parameters(S, k) : S \in SUBSET Fields, k \in Profiles}
    \cup {[debug_bundle_parameters(S, 1) EXCEPT
              !["k8s_namespace"] = optional(ns)] :
            S \in {{}, Fields}, ns \in ShortNs \cup LongNs}

\* The argument building is not under way.
ArgvIdle ==
    /\ params = debug_bundle_parameters({}, 1)
    /\ args = Ok(<<>>)
    /\ log_msg = <<>>
    /\ argv_pc = "idle"

\* ------------------------------------------------------- initial states
\* The members of the instances as the constructor leaves them.
InitMembers ==
    /\ rpk_process = NoProcess
    /\ child = [i \in Insts |-> "none"]
    /\ bg = [i \in Insts |-> NoTask]
    /\ debug_bundle_storage_dir = nullopt(<<>>)
    /\ debug_bundle_dir = form_debug_bundle_storage_directory(debug_bundle_storage_dir)
    /\ rpk_path_binding = rpk_path
    /\ kv_rollback = FALSE
    /\ mutex = <<>>
    /\ gate_count = [s \in Shards |-> 0]
    /\ gate_closed = [s \in Shards |-> FALSE]
    /\ stop_pc = [s \in Shards |-> "idle"]
    /\ ops = [c \in Shards |-> [IdleOp EXCEPT !.shard = c]]
    /\ stop_inst = 0
    /\ nruns = 0
    /\ nops = 0
    /\ aborted = "none"

\* The service over an empty disk and an empty KV store.
InitService ==
    /\ InitMembers
    /\ files = {}
    /\ dirs = {}
    /\ kvstore = NoMetadata

\* The handle of the run of job 1 that an earlier life of the process ended
\* with: its child had exited with code 0.
PreviousRun ==
    [debug_bundle_process(0, 1, form_debug_bundle_file_path(NoDir, 1),
                          form_process_output_file_path(NoDir, 1))
     EXCEPT !.wait_result = "exited_0"]

\* The service constructed after a restart of the process: the KV store it
\* is handed and the disk hold what the successful run of the earlier life
\* left.
InitRestart ==
    /\ InitMembers
    /\ files = {PreviousRun.output_file_path,
                PreviousRun.process_output_file_path}
    /\ dirs = {NoDir}
    /\ kvstore = metadata(PreviousRun.job_id, PreviousRun, "sha256")
    /\ nfaults = 0
    /\ ArgvIdle

\* The service with the whole budget of failures ahead of it.
Init == InitService /\ nfaults = 0 /\ ArgvIdle

\* The service in an environment where no file-system, KV or process
\* facility call fails.
InitLive == InitService /\ nfaults = MaxFaults /\ ArgvIdle

\* ------------------------------------------------- entry of an operation
\* The code of a public operation on the service-shard instance, from its
\* entry to its first suspension: the gate ticket, then get_units() on the
\* control mutex (status takes no units and reads the handle at once).
\* Mutant: the snapshot carries no job id.
StatusSnapshotNoJob(st, size) ==
    [job_id |-> 0, status |-> st,
     file_name |-> rpk_process.output_file_path, file_size |-> size]

StatusSnapshot(st, size) ==
    [job_id |-> rpk_process.job_id, status |-> st,
     file_name |-> rpk_process.output_file_path, file_size |-> size]

LockedPc(o) ==
    CASE o = "initiate" -> "file_exists"
      [] o = "cancel" -> "cancel_check"
      [] o = "path" -> "path_check"
      [] o = "delete" -> "delete_check"

EnterService(c, o, j) ==
    IF HoldsGate(o) /\ gate_closed[service_shard]
    THEN /\ ops' = [ops EXCEPT ![c] =
                      [NewOp(o, "done", j) EXCEPT !.res = "gate_closed_exception",
                                                 !.shard = c]]
         /\ gate_count' = GateAdd(c, 0, -1)
         /\ UNCHANGED mutex
    ELSE IF o = "status"
    THEN /\ UNCHANGED mutex
         /\ IF process_status = "nullopt"
            THEN /\ ops' = [ops EXCEPT ![c] =
                      [NewOp(o, "done", j) EXCEPT
                          !.res = "debug_bundle_process_never_started",
                          !.shard = c]]
                 /\ gate_count' = GateAdd(c, 0, -1)
            ELSE IF process_status = "success"
            THEN /\ ops' = [ops EXCEPT ![c] =
                      [NewOp(o, "file_size", j) EXCEPT
                          !.status = process_status, !.inst = rpk_process.inst,
                          !.shard = RoutedShard(c)]]
                 /\ gate_count' = GateAdd(c, 1, 0)
            ELSE /\ ops' = [ops EXCEPT ![c] =
                      [NewOp(o, "done", j) EXCEPT
                          !.res = "success",
                          !.snap = StatusSnapshot(process_status, FALSE),
                          !.shard = c]]
                 /\ gate_count' = GateAdd(c, 0, -1)
    ELSE /\ ops' = [ops EXCEPT ![c] =
                      [NewOp(o, LockedPc(o), j) EXCEPT !.shard = RoutedShard(c)]]
         /\ gate_count' = IF HoldsGate(o) THEN GateAdd(c, 1, 0) ELSE gate_count
         /\ mutex' = Append(mutex, OpId(c))

InFlightInitiates == Cardinality({c \in Shards : ops[c].op = "initiate" /\ ops[c].pc # "done"})

\* A caller on shard c calls a public operation of its shard's instance.
Call(c) ==
    /\ Alive
    /\ ops[c].pc \in {"idle", "done"}
    /\ nops < MaxOps
    /\ stop_pc[c] # "stopped"
    /\ \E o \in OpNames, j \in JobIds :
        /\ o = "status" => j = 1
        /\ o = "initiate" => nruns + InFlightInitiates < MaxRuns
        /\ IF c = service_shard
           THEN EnterService(c, o, IF o = "status" THEN 0 ELSE j)
           ELSE IF HoldsGate(o) /\ gate_closed[c]
           THEN /\ ops' = [ops EXCEPT ![c] =
                      [NewOp(o, "done", IF o = "status" THEN 0 ELSE j) EXCEPT
                          !.res = "gate_closed_exception", !.shard = c]]
                /\ UNCHANGED <<gate_count, mutex>>
           ELSE /\ ops' = [ops EXCEPT ![c] =
                      [NewOp(o, "invoke_on", IF o = "status" THEN 0 ELSE j)
                          EXCEPT !.shard = c]]
                /\ gate_count' = IF HoldsGate(o)
                                 THEN [gate_count EXCEPT ![c] = @ + 1]
                                 ELSE gate_count
                /\ UNCHANGED mutex
    /\ nops' = nops + 1
    /\ UNCHANGED <<rpk_process, child, bg, files, kvstore, kv_rollback,
                   gate_closed, stop_pc, stop_inst, nruns, nfaults, aborted>>
    /\ UNCHANGED <<argv_vars, config_vars, dirs>>

\* container().invoke_on(service_shard, ...) runs the operation there.
InvokeOn(c) ==
    /\ Alive
    /\ ops[c].pc = "invoke_on"
    /\ EnterService(c, ops[c].op, ops[c].job_id)
    /\ UNCHANGED <<rpk_process, child, bg, files, kvstore, kv_rollback,
                   gate_closed, stop_pc, stop_inst, nruns, nops, nfaults,
                   aborted>>
    /\ UNCHANGED <<argv_vars, config_vars, dirs>>

\* ------------------------------------------------------------ initiate
\* The units are held and file_exists(rpk_path) resolves: the collector
\* binary is on disk or it is not.
InitiateFileExists(c) ==
    /\ Alive
    /\ ops[c].pc = "file_exists"
    /\ HasUnits(OpId(c))
    /\ \E present \in BOOLEAN :
        ops' = [ops EXCEPT ![c].pc =
                  IF present THEN "binary_present" ELSE "binary_absent",
                           ![c].checked = rpk_path_binding]
    /\ UNCHANGED <<rpk_process, child, bg, files, kvstore, kv_rollback, mutex,
                   gate_count, gate_closed, stop_pc, stop_inst, nruns, nops,
                   nfaults, aborted>>
    /\ UNCHANGED <<argv_vars, config_vars, dirs>>

\* Mutant: the running check is left out.
InitiateRunningCheckLeftOut == FALSE

\* `if (_rpk_process) { if (is_running()) ...`
InitiateRunningCheck == rpk_process # NoProcess /\ is_running

\* Mutant: the binary is checked only after cleanup_previous_run ran.
BinaryNotPresentAfterCleanup(c) ==
    /\ ReturnUnlock(c, "rpk_binary_not_present")
    /\ files' = files \ {rpk_process.output_file_path,
                          rpk_process.process_output_file_path}
    /\ kvstore' = NoMetadata

\* The early return of initiate for a missing binary.
BinaryNotPresent(c) ==
    /\ ReturnUnlock(c, "rpk_binary_not_present")
    /\ UNCHANGED <<files, kvstore>>

\* The binary check, the running check, then cleanup_previous_run up to its
\* first suspension.
InitiateCheckBinary(c) ==
    /\ Alive
    /\ ops[c].pc \in {"binary_present", "binary_absent"}
    /\ IF ops[c].pc = "binary_absent"
       THEN BinaryNotPresent(c)
       ELSE IF InitiateRunningCheck
       THEN /\ ReturnUnlock(c, "debug_bundle_process_running")
            /\ UNCHANGED <<files, kvstore>>
       ELSE /\ ops' = [ops EXCEPT ![c].pc =
                         IF rpk_process = NoProcess THEN "mkdir"
                         ELSE "cleanup_bundle",
                                 ![c].before = Artifacts(files, kvstore),
                                 ![c].output_dir =
                                    IF rpk_process = NoProcess
                                    THEN debug_bundle_dir ELSE <<>>]
            /\ UNCHANGED <<mutex, gate_count, files, kvstore>>
    /\ UNCHANGED <<rpk_process, child, bg, kv_rollback, gate_closed, stop_pc,
                   stop_inst, nruns, nops, nfaults, aborted>>
    /\ UNCHANGED <<argv_vars, config_vars, dirs>>

\* cleanup_previous_run: file_exists + remove_file of one file of the handle.
CleanupFile(c, path, next) ==
    \/ /\ path \in files
       /\ files' = files \ {path}
       /\ ops' = [ops EXCEPT ![c].pc = next]
       /\ UNCHANGED <<mutex, gate_count, nfaults>>
    \/ /\ path \notin files
       /\ ops' = [ops EXCEPT ![c].pc = next]
       /\ UNCHANGED <<files, mutex, gate_count, nfaults>>
    \/ /\ path \in files
       /\ nfaults < MaxFaults
       /\ nfaults' = nfaults + 1
       /\ ReturnUnlock(c, "internal_error")
       /\ UNCHANGED files

\* Mutant: cleanup_previous_run forms the bundle path anew from the current
\* _debug_bundle_dir.
InitiateCleanupBundleCurrentDir(c) ==
    /\ Alive
    /\ ops[c].pc = "cleanup_bundle"
    /\ CleanupFile(c, form_debug_bundle_file_path(debug_bundle_dir,
                                                 rpk_process.job_id),
                   "cleanup_out")
    /\ UNCHANGED <<rpk_process, child, bg, kvstore, kv_rollback, gate_closed,
                   stop_pc, stop_inst, nruns, nops, aborted>>
    /\ UNCHANGED <<argv_vars, config_vars, dirs>>

InitiateCleanupBundle(c) ==
    /\ Alive
    /\ ops[c].pc = "cleanup_bundle"
    /\ CleanupFile(c, rpk_process.output_file_path, "cleanup_out")
    /\ UNCHANGED <<rpk_process, child, bg, kvstore, kv_rollback, gate_closed,
                   stop_pc, stop_inst, nruns, nops, aborted>>
    /\ UNCHANGED <<argv_vars, config_vars, dirs>>

InitiateCleanupOut(c) ==
    /\ Alive
    /\ ops[c].pc = "cleanup_out"
    /\ CleanupFile(c, rpk_process.process_output_file_path, "cleanup_kv")
    /\ UNCHANGED <<rpk_process, child, bg, kvstore, kv_rollback, gate_closed,
                   stop_pc, stop_inst, nruns, nops, aborted>>
    /\ UNCHANGED <<argv_vars, config_vars, dirs>>

\* Mutant: cleanup_previous_run forgets the KV entry.
CleanupKvLeftOut(c) ==
    /\ ops' = [ops EXCEPT ![c].pc = "mkdir",
                           ![c].output_dir = debug_bundle_dir]
    /\ UNCHANGED <<kvstore, mutex, gate_count, nfaults>>

\* cleanup_previous_run: _kvstore->remove(debug_bundle_metadata_key).
CleanupKv(c) ==
    \/ /\ kvstore' = NoMetadata
       /\ ops' = [ops EXCEPT ![c].pc = "mkdir",
                              ![c].output_dir = debug_bundle_dir]
       /\ UNCHANGED <<mutex, gate_count, nfaults>>
    \/ /\ nfaults < MaxFaults
       /\ nfaults' = nfaults + 1
       /\ ReturnUnlock(c, "internal_error")
       /\ UNCHANGED kvstore

InitiateCleanupKv(c) ==
    /\ Alive
    /\ ops[c].pc = "cleanup_kv"
    /\ ~kv_rollback
    /\ CleanupKv(c)
    /\ UNCHANGED <<rpk_process, child, bg, files, kv_rollback, gate_closed,
                   stop_pc, stop_inst, nruns, nops, aborted>>
    /\ UNCHANGED <<argv_vars, config_vars, dirs>>

\* The storage directory output_dir is ensured, the two paths are formed
\* and build_rpk_arguments runs, which reads _rpk_path_binding();
\* create_external_process is awaited next.
InitiateMkdir(c) ==
    /\ Alive
    /\ ops[c].pc = "mkdir"
    /\ \/ /\ nfaults < MaxFaults
          /\ nfaults' = nfaults + 1
          /\ ReturnUnlock(c, "internal_error")
          /\ UNCHANGED dirs
       \/ /\ ReturnUnlock(c, "invalid_parameters")
          /\ dirs' = dirs \cup {ops[c].output_dir}
          /\ UNCHANGED nfaults
       \/ /\ ops' = [ops EXCEPT ![c].pc = "spawn",
                                 ![c].argv0 = rpk_path_binding]
          /\ dirs' = dirs \cup {ops[c].output_dir}
          /\ UNCHANGED <<mutex, gate_count, nfaults>>
    /\ UNCHANGED <<rpk_process, child, bg, files, kvstore, kv_rollback,
                   gate_closed, stop_pc, stop_inst, nruns, nops, aborted>>
    /\ UNCHANGED <<argv_vars, config_vars>>

\* Mutant: the background task is spawned without a gate ticket.
spawn_without_gate == 0 - 1

\* ssx::spawn_with_gate(_gate, ...): the task takes a ticket of the service
\* shard's gate as the initiate gives its own back.
spawn_with_gate == 1 - 1

\* ~debug_bundle_process of the handle the slot held.
DestroyedRunning == rpk_process # NoProcess /\ child[rpk_process.inst] = "running"

\* create_external_process resolved: the new handle is installed and the
\* background wait task is spawned with the gate; or it threw and the slot
\* is reset.
InitiateSpawn(c) ==
    /\ Alive
    /\ ops[c].pc = "spawn"
    /\ \/ /\ nruns' = nruns + 1
          /\ rpk_process' =
                [debug_bundle_process(
                    nruns + 1, ops[c].job_id,
                    form_debug_bundle_file_path(ops[c].output_dir,
                                                ops[c].job_id),
                    form_process_output_file_path(ops[c].output_dir,
                                                  ops[c].job_id))
                 EXCEPT !.shard = ops[c].shard]
          /\ child' = [child EXCEPT ![nruns + 1] = "running"]
          /\ bg' = [bg EXCEPT ![nruns + 1] =
                       [pc |-> "waiting", job_id |-> ops[c].job_id,
                        output_file_path |->
                            form_debug_bundle_file_path(ops[c].output_dir,
                                                        ops[c].job_id)]]
          /\ ops' = [ops EXCEPT ![c].pc = "done", ![c].res = "success",
                                 ![c].shard = c,
                                 ![c].before = IdleOp.before,
                                 ![c].checked = <<>>,
                                 ![c].output_dir = <<>>,
                                 ![c].argv0 = <<>>]
          /\ gate_count' = GateAdd(c, spawn_with_gate, -1)
          /\ mutex' = Tail(mutex)
          /\ UNCHANGED nfaults
       \/ /\ nfaults < MaxFaults
          /\ nfaults' = nfaults + 1
          /\ rpk_process' = NoProcess
          /\ ReturnUnlock(c, "internal_error")
          /\ UNCHANGED <<nruns, child, bg>>
    /\ aborted' = IF DestroyedRunning
                  THEN "Destroying process struct without waiting for process to finish"
                  ELSE aborted
    /\ UNCHANGED <<files, kvstore, kv_rollback, gate_closed, stop_pc,
                   stop_inst, nops>>
    /\ UNCHANGED <<argv_vars, config_vars, dirs>>

\* ------------------------------------------------ the child and its wait
JobOf(i) == bg[i].job_id
OutputOf(i) == bg[i].output_file_path

\* The collector ends by itself: it may have written the bundle file.
ChildExit(i) ==
    /\ Alive
    /\ child[i] = "running"
    /\ \E ws \in {"exited_0", "exited_2"}, wrote \in BOOLEAN :
        /\ child' = [child EXCEPT ![i] = ws]
        /\ files' = IF wrote
                    THEN files \cup {OutputOf(i)}
                    ELSE files
    /\ UNCHANGED <<rpk_process, bg, kvstore, kv_rollback, mutex, gate_count,
                   gate_closed, stop_pc, ops, stop_inst, nruns, nops,
                   nfaults, aborted>>
    /\ UNCHANGED <<argv_vars, config_vars, dirs>>

\* Mutant: the exception of wait() leaves the task's future unresolved, so
\* the gate ticket of the task is never given back.
ProcessWaitEscapes(i) ==
    \/ /\ rpk_process' = [rpk_process EXCEPT !.wait_result = child[i]]
       /\ bg' = [bg EXCEPT ![i].pc = "resolved"]
       /\ UNCHANGED <<gate_count, nfaults>>
    \/ /\ nfaults < MaxFaults
       /\ nfaults' = nfaults + 1
       /\ rpk_process' = [rpk_process EXCEPT !.wait_result = "exited_1"]
       /\ bg' = [bg EXCEPT ![i].pc = "done"]
       /\ UNCHANGED gate_count

\* debug_bundle_process::wait of handle i: the child's wait() resolved and
\* _wait_result is emplaced, or it threw and exited{1} is emplaced.
ProcessWait(i) ==
    \/ /\ rpk_process' = [rpk_process EXCEPT !.wait_result = child[i]]
       /\ bg' = [bg EXCEPT ![i].pc = "resolved"]
       /\ UNCHANGED <<gate_count, nfaults>>
    \/ /\ nfaults < MaxFaults
       /\ nfaults' = nfaults + 1
       /\ rpk_process' = [rpk_process EXCEPT !.wait_result = "exited_1"]
       /\ bg' = [bg EXCEPT ![i].pc = "done"]
       /\ gate_count' = [gate_count EXCEPT ![service_shard] = @ - 1]

\* The external-process facility: wait() of child i resolves, or throws,
\* once the child has ended.
external_process_wait_ready(i) == child[i] \notin {"none", "running"}

BgWaitResolve(i) ==
    /\ Alive
    /\ bg[i].pc = "waiting"
    /\ external_process_wait_ready(i)
    /\ rpk_process.inst = i
    /\ ProcessWait(i)
    /\ UNCHANGED <<child, files, kvstore, kv_rollback, mutex, gate_closed,
                   stop_pc, ops, stop_inst, nruns, nops, aborted>>
    /\ UNCHANGED <<argv_vars, config_vars, dirs>>

\* The continuation of wait(): _gate.hold(), then get_units().
BgAcquire(i) ==
    /\ Alive
    /\ bg[i].pc = "resolved"
    /\ IF gate_closed[service_shard]
       THEN /\ bg' = [bg EXCEPT ![i].pc = "done"]
            /\ gate_count' = [gate_count EXCEPT ![service_shard] = @ - 1]
            /\ UNCHANGED mutex
       ELSE /\ bg' = [bg EXCEPT ![i].pc = "handle"]
            /\ gate_count' = [gate_count EXCEPT ![service_shard] = @ + 1]
            /\ mutex' = Append(mutex, TaskId(i))
    /\ UNCHANGED <<rpk_process, child, files, kvstore, kv_rollback,
                   gate_closed, stop_pc, ops, stop_inst, nruns, nops,
                   nfaults, aborted>>
    /\ UNCHANGED <<argv_vars, config_vars, dirs>>

\* handle_wait_result(job_id): whether the slot still holds that job.
HandleStillPresent(job_id) == rpk_process # NoProcess /\ rpk_process.job_id = job_id

\* handle_wait_result, and set_metadata up to its first suspension.
BgHandle(i) ==
    /\ Alive
    /\ bg[i].pc = "handle"
    /\ HasUnits(TaskId(i))
    /\ IF ~HandleStillPresent(bg[i].job_id)
       THEN /\ bg' = [bg EXCEPT ![i].pc = "skipped"]
            /\ UNCHANGED aborted
       ELSE IF rpk_process.wait_result = "none"
       THEN /\ aborted' = "wait_result must have been set"
            /\ UNCHANGED bg
       ELSE /\ bg' = [bg EXCEPT ![i].pc =
                        IF was_run_successful(rpk_process.wait_result)
                        THEN "md_exists" ELSE "md_put"]
            /\ UNCHANGED aborted
    /\ UNCHANGED <<rpk_process, child, files, kvstore, kv_rollback, mutex,
                   gate_count, gate_closed, stop_pc, ops, stop_inst,
                   nruns, nops, nfaults>>
    /\ UNCHANGED <<argv_vars, config_vars, dirs>>

\* set_metadata of a successful run: file_exists(bundle), then the checksum.
BgMdExists(i) ==
    /\ Alive
    /\ bg[i].pc = "md_exists"
    /\ \/ /\ rpk_process.output_file_path \notin files
          /\ bg' = [bg EXCEPT ![i].pc = "md_done"]
          /\ UNCHANGED nfaults
       \/ /\ rpk_process.output_file_path \in files
          /\ bg' = [bg EXCEPT ![i].pc = "md_put"]
          /\ UNCHANGED nfaults
       \/ /\ rpk_process.output_file_path \in files
          /\ nfaults < MaxFaults
          /\ nfaults' = nfaults + 1
          /\ bg' = [bg EXCEPT ![i].pc = "md_done"]
    /\ UNCHANGED <<rpk_process, child, files, kvstore, kv_rollback, mutex,
                   gate_count, gate_closed, stop_pc, ops, stop_inst,
                   nruns, nops, aborted>>
    /\ UNCHANGED <<argv_vars, config_vars, dirs>>

\* set_metadata: the checksum recorded with the entry.
MetadataChecksum(p) ==
    IF was_run_successful(p.wait_result) THEN "sha256" ELSE "empty"

\* set_metadata: _kvstore->put of the serialized metadata.
BgMdPut(i) ==
    /\ Alive
    /\ bg[i].pc = "md_put"
    /\ ~kv_rollback
    /\ \/ /\ kvstore' = metadata(bg[i].job_id, rpk_process,
                                 MetadataChecksum(rpk_process))
          /\ bg' = [bg EXCEPT ![i].pc = "md_write"]
          /\ UNCHANGED nfaults
       \/ /\ nfaults < MaxFaults
          /\ nfaults' = nfaults + 1
          /\ bg' = [bg EXCEPT ![i].pc = "md_done"]
          /\ UNCHANGED kvstore
    /\ UNCHANGED <<rpk_process, child, files, kv_rollback, mutex, gate_count,
                   gate_closed, stop_pc, ops, stop_inst, nruns, nops,
                   aborted>>
    /\ UNCHANGED <<argv_vars, config_vars, dirs>>

\* write_file(path): open_file_dma(create) makes the file, the copy and the
\* flush fill it; each of them may throw.
write_file(path) ==
    \/ /\ files' = files \cup {path}
       /\ kv_rollback' = FALSE
       /\ UNCHANGED nfaults
    \/ /\ nfaults < MaxFaults
       /\ nfaults' = nfaults + 1
       /\ \E created \in BOOLEAN :
            files' = IF created THEN files \cup {path} ELSE files
       /\ kv_rollback' = TRUE

\* set_metadata: the process output file is written; the deferred
\* remove_kvstore_on_err fires unless the write succeeded.
BgMdWrite(i) ==
    /\ Alive
    /\ bg[i].pc = "md_write"
    /\ write_file(rpk_process.process_output_file_path)
    /\ bg' = [bg EXCEPT ![i].pc = "md_done"]
    /\ UNCHANGED <<rpk_process, child, kvstore, mutex, gate_count,
                   gate_closed, stop_pc, ops, stop_inst, nruns, nops,
                   aborted>>
    /\ UNCHANGED <<argv_vars, config_vars, dirs>>

\* The finally continuations of the task: the units, then both tickets.
BgRelease(i) ==
    /\ Alive
    /\ bg[i].pc \in {"skipped", "md_done"}
    /\ bg' = [bg EXCEPT ![i].pc = "done"]
    /\ mutex' = Tail(mutex)
    /\ gate_count' = [gate_count EXCEPT ![service_shard] = @ - 2]
    /\ UNCHANGED <<rpk_process, child, files, kvstore, kv_rollback,
                   gate_closed, stop_pc, ops, stop_inst, nruns, nops,
                   nfaults, aborted>>
    /\ UNCHANGED <<argv_vars, config_vars, dirs>>

\* The background _kvstore->remove issued by remove_kvstore_on_err.
KvRollback ==
    /\ Alive
    /\ kv_rollback
    /\ kvstore' = NoMetadata
    /\ kv_rollback' = FALSE
    /\ UNCHANGED <<rpk_process, child, bg, files, mutex, gate_count,
                   gate_closed, stop_pc, ops, stop_inst, nruns, nops,
                   nfaults, aborted>>
    /\ UNCHANGED <<argv_vars, config_vars, dirs>>


\* -------------------------------------------------------------- cancel
\* external_process::terminate(timeout) of the child of handle i: "ok" (the
\* child is gone when it resolves), "process_already_completed", or another
\* failure.
TerminateOutcomes(i) ==
    IF child[i] = "running"
    THEN IF nfaults < MaxFaults THEN {"ok", "failed"} ELSE {"ok"}
    ELSE {"process_already_completed"}

\* Mutant: the job id is compared before the running check.
CancelResultJobFirst(job_id) ==
    IF process_status = "nullopt" THEN "debug_bundle_process_never_started"
    ELSE IF job_id # rpk_process.job_id THEN "job_id_not_recognized"
    ELSE IF ~is_running THEN "debug_bundle_process_not_running"
    ELSE "terminate"

\* cancel_rpk_debug_bundle from the units to terminate(1s).
CancelResult(job_id) ==
    IF process_status = "nullopt" THEN "debug_bundle_process_never_started"
    ELSE IF ~is_running THEN "debug_bundle_process_not_running"
    ELSE IF job_id # rpk_process.job_id THEN "job_id_not_recognized"
    ELSE "terminate"

CancelCheck(c) ==
    /\ Alive
    /\ ops[c].pc = "cancel_check"
    /\ HasUnits(OpId(c))
    /\ IF CancelResult(ops[c].job_id) = "terminate"
       THEN /\ ops' = [ops EXCEPT ![c].pc = "terminate",
                                  ![c].inst = rpk_process.inst]
            /\ UNCHANGED <<mutex, gate_count>>
       ELSE ReturnUnlock(c, CancelResult(ops[c].job_id))
    /\ UNCHANGED <<rpk_process, child, bg, files, kvstore, kv_rollback,
                   gate_closed, stop_pc, stop_inst, nruns, nops, nfaults,
                   aborted>>
    /\ UNCHANGED <<argv_vars, config_vars, dirs>>

CancelTerminateResult(outcome) ==
    CASE outcome = "ok" -> "success"
      [] outcome = "process_already_completed" -> "debug_bundle_process_not_running"
      [] OTHER -> "internal_error"

CancelTerminate(c) ==
    /\ Alive
    /\ ops[c].pc = "terminate"
    /\ \E outcome \in TerminateOutcomes(ops[c].inst) :
        /\ child' = IF outcome = "ok"
                    THEN [child EXCEPT ![ops[c].inst] = "signaled"]
                    ELSE child
        /\ nfaults' = IF outcome = "failed" THEN nfaults + 1 ELSE nfaults
        /\ ReturnUnlock(c, CancelTerminateResult(outcome))
    /\ UNCHANGED <<rpk_process, bg, files, kvstore, kv_rollback, gate_closed,
                   stop_pc, stop_inst, nruns, nops, aborted>>
    /\ UNCHANGED <<argv_vars, config_vars, dirs>>

\* -------------------------------------------------------------- status
\* rpk_debug_bundle_status after file_size(output_file) resolved. output_file
\* is a reference into the handle read before the suspension; the other
\* fields are read from the slot as it is now.
StatusReturn(c, measured) ==
    /\ ops' = [ops EXCEPT ![c] =
                 IF measured
                 THEN [NewOp("status", "done", 0) EXCEPT
                         !.shard = c,
                         !.res = "success",
                         !.snap = StatusSnapshot(ops[c].status, TRUE)]
                 ELSE [NewOp("status", "done", 0) EXCEPT
                         !.shard = c,
                         !.res = "internal_error"]]
    /\ gate_count' = GateAdd(c, -1, -1)

\* ss::file_size(output_file) runs: the path is the bundle file path of the
\* handle that was in the slot when status() read its status.
StatusMeasure(c) ==
    /\ Alive
    /\ ops[c].pc = "file_size"
    /\ ops' = [ops EXCEPT ![c].pc =
                 IF OutputOf(ops[c].inst) \in files
                 THEN "file_size_ok" ELSE "file_size_failed"]
    /\ UNCHANGED <<rpk_process, child, bg, files, kvstore, kv_rollback, mutex,
                   gate_count, gate_closed, stop_pc, stop_inst, nruns, nops,
                   nfaults, aborted>>
    /\ UNCHANGED <<argv_vars, config_vars, dirs>>

\* status() resumes after co_await ss::file_size. With the size it builds
\* the snapshot from the status it read before the suspension and from the
\* handle that is in the slot now: the same handle, the handle a later
\* initiate installed, or none (a null _rpk_process is dereferenced).
\* Without the size it formats the error from output_file, a reference into
\* the handle it read, which a later initiate has destroyed or not.
StatusFileSize(c) ==
    /\ Alive
    /\ ops[c].pc \in {"file_size_ok", "file_size_failed"}
    /\ \/ /\ ops[c].pc = "file_size_ok"
          /\ rpk_process # NoProcess
          /\ StatusReturn(c, TRUE)
          /\ UNCHANGED aborted
       \/ /\ ops[c].pc = "file_size_ok"
          /\ rpk_process = NoProcess
          /\ aborted' = "status read a null _rpk_process"
          /\ UNCHANGED <<ops, gate_count>>
       \/ /\ ops[c].pc = "file_size_failed"
          /\ StatusReturn(c, FALSE)
          /\ UNCHANGED aborted
       \/ /\ ops[c].pc = "file_size_failed"
          /\ rpk_process.inst # ops[c].inst
          /\ aborted' = "status read a destroyed handle"
          /\ UNCHANGED <<ops, gate_count>>
    /\ UNCHANGED <<rpk_process, child, bg, files, kvstore, kv_rollback, mutex,
                   gate_closed, stop_pc, stop_inst, nruns, nops, nfaults>>
    /\ UNCHANGED <<argv_vars, config_vars, dirs>>

\* ---------------------------------------------------------------- path
\* Mutant: the job id is not compared.
PathResultAnyJob(job_id) ==
    IF process_status = "nullopt" THEN "debug_bundle_process_never_started"
    ELSE IF process_status = "running" THEN "debug_bundle_process_running"
    ELSE IF process_status = "error" THEN "process_failed"
    ELSE "file_exists"

\* rpk_debug_bundle_path from the units to file_exists(bundle).
PathResult(job_id) ==
    IF process_status = "nullopt" THEN "debug_bundle_process_never_started"
    ELSE IF process_status = "running" THEN "debug_bundle_process_running"
    ELSE IF process_status = "error" THEN "process_failed"
    ELSE IF job_id # rpk_process.job_id THEN "job_id_not_recognized"
    ELSE "file_exists"

PathCheck(c) ==
    /\ Alive
    /\ ops[c].pc = "path_check"
    /\ HasUnits(OpId(c))
    /\ IF PathResult(ops[c].job_id) = "file_exists"
       THEN /\ ops' = [ops EXCEPT ![c].pc = "path_exists"]
            /\ UNCHANGED <<mutex, gate_count>>
       ELSE ReturnUnlock(c, PathResult(ops[c].job_id))
    /\ UNCHANGED <<rpk_process, child, bg, files, kvstore, kv_rollback,
                   gate_closed, stop_pc, stop_inst, nruns, nops, nfaults,
                   aborted>>
    /\ UNCHANGED <<argv_vars, config_vars, dirs>>

PathExists(c) ==
    /\ Alive
    /\ ops[c].pc = "path_exists"
    /\ IF rpk_process.output_file_path \in files
       THEN /\ ops' = [ops EXCEPT ![c].pc = "done", ![c].res = "success",
                         ![c].shard = c,
                         ![c].snap = [NoSnap EXCEPT
                             !.file_name = rpk_process.output_file_path]]
            /\ mutex' = Tail(mutex)
            /\ UNCHANGED gate_count
       ELSE ReturnUnlock(c, "internal_error")
    /\ UNCHANGED <<rpk_process, child, bg, files, kvstore, kv_rollback,
                   gate_closed, stop_pc, stop_inst, nruns, nops, nfaults,
                   aborted>>
    /\ UNCHANGED <<argv_vars, config_vars, dirs>>

\* -------------------------------------------------------------- delete
\* Mutant: the switch of rpk_debug_bundle_path, which refuses a failed run.
DeleteResultLikePath(job_id) ==
    IF process_status = "nullopt" THEN "debug_bundle_process_never_started"
    ELSE IF process_status = "running" THEN "debug_bundle_process_running"
    ELSE IF process_status = "error" THEN "process_failed"
    ELSE IF rpk_process.job_id # job_id THEN "job_id_not_recognized"
    ELSE "remove_file"

\* delete_rpk_debug_bundle from the units to the try block.
DeleteResult(job_id) ==
    IF process_status = "nullopt" THEN "debug_bundle_process_never_started"
    ELSE IF process_status = "running" THEN "debug_bundle_process_running"
    ELSE IF rpk_process.job_id # job_id THEN "job_id_not_recognized"
    ELSE "remove_file"

DeleteCheck(c) ==
    /\ Alive
    /\ ops[c].pc = "delete_check"
    /\ HasUnits(OpId(c))
    /\ IF DeleteResult(ops[c].job_id) = "remove_file"
       THEN /\ ops' = [ops EXCEPT ![c].pc = "delete_remove"]
            /\ UNCHANGED <<mutex, gate_count>>
       ELSE ReturnUnlock(c, DeleteResult(ops[c].job_id))
    /\ UNCHANGED <<rpk_process, child, bg, files, kvstore, kv_rollback,
                   gate_closed, stop_pc, stop_inst, nruns, nops, nfaults,
                   aborted>>
    /\ UNCHANGED <<argv_vars, config_vars, dirs>>

\* file_exists + remove_file of the bundle file inside the try block.
DeleteRemove(c) ==
    /\ Alive
    /\ ops[c].pc = "delete_remove"
    /\ \/ /\ files' = files \ {rpk_process.output_file_path}
          /\ ReturnUnlock(c, "success")
          /\ UNCHANGED nfaults
       \/ /\ rpk_process.output_file_path \in files
          /\ nfaults < MaxFaults
          /\ nfaults' = nfaults + 1
          /\ ReturnUnlock(c, "internal_error")
          /\ UNCHANGED files
    /\ UNCHANGED <<rpk_process, child, bg, kvstore, kv_rollback, gate_closed,
                   stop_pc, stop_inst, nruns, nops, aborted>>
    /\ UNCHANGED <<argv_vars, config_vars, dirs>>

\* ---------------------------------------------------------------- stop
StopBegin(s) ==
    /\ Alive
    /\ stop_pc[s] = "idle"
    /\ nops < MaxOps
    /\ nops' = nops + 1
    /\ IF s = service_shard /\ is_running
       THEN /\ stop_pc' = [stop_pc EXCEPT ![s] = "terminate"]
            /\ stop_inst' = rpk_process.inst
            /\ UNCHANGED gate_closed
       ELSE /\ stop_pc' = [stop_pc EXCEPT ![s] = "closing"]
            /\ gate_closed' = [gate_closed EXCEPT ![s] = TRUE]
            /\ UNCHANGED stop_inst
    /\ UNCHANGED <<rpk_process, child, bg, files, kvstore, kv_rollback, mutex,
                   gate_count, ops, nruns, nfaults, aborted>>
    /\ UNCHANGED <<argv_vars, config_vars, dirs>>

\* terminate(1s) resolved or threw (the failure is logged); _gate.close().
StopTerminate(s) ==
    /\ Alive
    /\ stop_pc[s] = "terminate"
    /\ \E outcome \in TerminateOutcomes(stop_inst) :
        /\ child' = IF outcome = "ok"
                    THEN [child EXCEPT ![stop_inst] = "signaled"]
                    ELSE child
        /\ nfaults' = IF outcome = "failed" THEN nfaults + 1 ELSE nfaults
    /\ stop_pc' = [stop_pc EXCEPT ![s] = "closing"]
    /\ gate_closed' = [gate_closed EXCEPT ![s] = TRUE]
    /\ UNCHANGED <<rpk_process, bg, files, kvstore, kv_rollback, mutex,
                   gate_count, stop_inst, ops, nruns, nops, aborted>>
    /\ UNCHANGED <<argv_vars, config_vars, dirs>>

\* _gate.close() resolves once no ticket is held.
StopClosed(s) ==
    /\ Alive
    /\ stop_pc[s] = "closing"
    /\ gate_count[s] = 0
    /\ stop_pc' = [stop_pc EXCEPT ![s] = "stopped"]
    /\ UNCHANGED <<rpk_process, child, bg, files, kvstore, kv_rollback, mutex,
                   gate_count, gate_closed, ops, stop_inst, nruns, nops,
                   nfaults, aborted>>
    /\ UNCHANGED <<argv_vars, config_vars, dirs>>

\* --------------------------------------------------------- specification
Next ==
    \/ \E c \in Shards : Call(c)
    \/ \E c \in Shards : InvokeOn(c)
    \/ \E c \in Shards : InitiateFileExists(c)
    \/ \E c \in Shards : InitiateCheckBinary(c)
    \/ \E c \in Shards : InitiateCleanupBundle(c)
    \/ \E c \in Shards : InitiateCleanupOut(c)
    \/ \E c \in Shards : InitiateCleanupKv(c)
    \/ \E c \in Shards : InitiateMkdir(c)
    \/ \E c \in Shards : InitiateSpawn(c)
    \/ \E c \in Shards : CancelCheck(c)
    \/ \E c \in Shards : CancelTerminate(c)
    \/ \E c \in Shards : StatusMeasure(c)
    \/ \E c \in Shards : StatusFileSize(c)
    \/ \E c \in Shards : PathCheck(c)
    \/ \E c \in Shards : PathExists(c)
    \/ \E c \in Shards : DeleteCheck(c)
    \/ \E c \in Shards : DeleteRemove(c)
    \/ \E i \in Insts : ChildExit(i)
    \/ \E i \in Insts : BgWaitResolve(i)
    \/ \E i \in Insts : BgAcquire(i)
    \/ \E i \in Insts : BgHandle(i)
    \/ \E i \in Insts : BgMdExists(i)
    \/ \E i \in Insts : BgMdPut(i)
    \/ \E i \in Insts : BgMdWrite(i)
    \/ \E i \in Insts : BgRelease(i)
    \/ KvRollback
    \/ \E s \in Shards : StopBegin(s)
    \/ \E s \in Shards : StopTerminate(s)
    \/ \E s \in Shards : StopClosed(s)

Spec == Init /\ [][Next]_vars

\* The service after a restart of the process.
SpecRestart == InitRestart /\ [][Next]_vars

\* ------------------------------------------- live configuration changes
\* The property debug_bundle_storage_dir changes: the watch callback of
\* _debug_bundle_storage_dir_binding recomputes _debug_bundle_dir.
StorageDirChanged ==
    /\ Alive
    /\ nops < MaxOps
    /\ \E cfg \in StorageDirs \ {debug_bundle_storage_dir} :
        /\ debug_bundle_storage_dir' = cfg
        /\ debug_bundle_dir' = form_debug_bundle_storage_directory(cfg)
    /\ nops' = nops + 1
    /\ UNCHANGED <<rpk_process, child, bg, files, kvstore, kv_rollback, mutex,
                   gate_count, gate_closed, stop_pc, stop_inst, ops, nruns,
                   nfaults, aborted, dirs, rpk_path_binding>>
    /\ UNCHANGED argv_vars

\* The property rpk_path changes: _rpk_path_binding() yields the new value.
RpkPathChanged ==
    /\ Alive
    /\ nops < MaxOps
    /\ \E path \in RpkPaths \ {rpk_path_binding} :
        rpk_path_binding' = path
    /\ nops' = nops + 1
    /\ UNCHANGED <<rpk_process, child, bg, files, kvstore, kv_rollback, mutex,
                   gate_count, gate_closed, stop_pc, stop_inst, ops, nruns,
                   nfaults, aborted, dirs, debug_bundle_storage_dir,
                   debug_bundle_dir>>
    /\ UNCHANGED argv_vars

\* The service while the cluster configuration is edited.
NextConfig ==
    \/ Next
    \/ StorageDirChanged
    \/ RpkPathChanged

SpecConfig == Init /\ [][NextConfig]_vars

\* One continuation of the public operation of caller c.
OpStep(c) ==
    \/ InvokeOn(c)
    \/ InitiateFileExists(c)
    \/ InitiateCheckBinary(c)
    \/ InitiateCleanupBundle(c)
    \/ InitiateCleanupOut(c)
    \/ InitiateCleanupKv(c)
    \/ InitiateMkdir(c)
    \/ InitiateSpawn(c)
    \/ CancelCheck(c)
    \/ CancelTerminate(c)
    \/ StatusMeasure(c)
    \/ StatusFileSize(c)
    \/ PathCheck(c)
    \/ PathExists(c)
    \/ DeleteCheck(c)
    \/ DeleteRemove(c)

\* One continuation of the background task spawned for handle i.
BgStep(i) ==
    \/ BgWaitResolve(i)
    \/ BgAcquire(i)
    \/ BgHandle(i)
    \/ BgMdExists(i)
    \/ BgMdPut(i)
    \/ BgMdWrite(i)
    \/ BgRelease(i)

\* The service while nobody calls stop().
NextLive ==
    \/ \E c \in Shards : Call(c)
    \/ \E c \in Shards : OpStep(c)
    \/ \E i \in Insts : ChildExit(i)
    \/ \E i \in Insts : BgStep(i)

\* The reactor runs every ready continuation, every file-system and KV
\* call completes, and the control mutex hands its units out in FIFO order:
\* a continuation that stays ready is eventually run.
Fairness ==
    /\ \A c \in Shards : WF_vars(OpStep(c))
    /\ \A i \in Insts : WF_vars(BgStep(i))

SpecLive == InitLive /\ [][NextLive]_vars /\ Fairness

\* --------------------------------------- the argument building of initiate
\* build_rpk_arguments(debug_bundle_file_path, params) returns.
BuildArguments ==
    /\ argv_pc = "start"
    /\ args' = build_rpk_arguments(debug_bundle_file_path, params)
    /\ argv_pc' = IF args'.error = "" THEN "built" ELSE "invalid"
    /\ UNCHANGED <<params, log_msg>>
    /\ UNCHANGED <<service_vars, config_vars>>

\* print_arguments(args.assume_value()) writes the debug log line.
PrintArguments ==
    /\ argv_pc = "built"
    /\ log_msg' = print_arguments(args.rv)
    /\ argv_pc' = "logged"
    /\ UNCHANGED <<params, args>>
    /\ UNCHANGED <<service_vars, config_vars>>

InitArgv ==
    /\ InitService
    /\ nfaults = 0
    /\ params \in ParamInputs
    /\ args = Ok(<<>>)
    /\ log_msg = <<>>
    /\ argv_pc = "start"

NextArgv ==
    \/ BuildArguments
    \/ PrintArguments

SpecArgv == InitArgv /\ [][NextArgv]_vars


\* ================================================================ claims
RunningChildren == {i \in Insts : child[i] = "running"}

HandleRunning == rpk_process # NoProcess /\ rpk_process.wait_result = "none"

\* The step is one of the operation of caller c.
StepOf(c) == ops'[c] # ops[c]

\* C1 (amended): at most one child process runs in every reachable state; an
\* initiate that holds the units, found the collector binary on disk and
\* finds the handle running at its check returns
\* debug_bundle_process_running and spawns nothing.
C1_SingleRun ==
    /\ [](Cardinality(RunningChildren) <= 1)
    /\ [][\A c \in Shards :
            (ops[c].pc = "binary_present" /\ HandleRunning /\ StepOf(c))
            => /\ ops'[c].pc = "done"
               /\ ops'[c].res = "debug_bundle_process_running"
               /\ UNCHANGED <<rpk_process, child, bg, nruns>>]_vars

C1_Witness ==
    \E c \in Shards :
        /\ ops[c].op = "initiate"
        /\ ops[c].pc = "done"
        /\ ops[c].res = "debug_bundle_process_running"
        /\ RunningChildren # {}

\* C1 as stated: at most one child runs, and every initiate that holds the
\* units while the handle is running returns debug_bundle_process_running.
C1_Original ==
    /\ [](Cardinality(RunningChildren) <= 1)
    /\ [][\A c \in Shards :
            (ops[c].op = "initiate" /\ HasUnits(OpId(c)) /\ HandleRunning
             /\ ops'[c].pc = "done")
            => ops'[c].res = "debug_bundle_process_running"]_vars

\* C2: an initiate that finds the collector binary missing returns
\* rpk_binary_not_present and none of its steps changes the handle slot, a
\* child, the files or the KV entry; a status() on a service that never
\* installed a handle returns debug_bundle_process_never_started.
C2_BinaryMissing ==
    [][\A c \in Shards :
        /\ (StepOf(c) /\ ops[c].pc = "binary_absent")
           => /\ ops'[c].pc = "done"
              /\ ops'[c].res = "rpk_binary_not_present"
        /\ (StepOf(c) /\ ops'[c].op = "initiate"
            /\ (ops[c].pc = "binary_absent"
                \/ ops'[c].pc \in {"invoke_on", "file_exists",
                                   "binary_absent"}))
           => UNCHANGED <<rpk_process, child, bg, files, kvstore,
                          kv_rollback, nruns>>
        /\ (StepOf(c) /\ ops'[c].op = "status" /\ ops'[c].pc # "invoke_on"
            /\ nruns = 0 /\ ~gate_closed[service_shard]
            /\ (ops[c].pc = "invoke_on" \/ ~gate_closed[c]))
           => /\ ops'[c].pc = "done"
              /\ ops'[c].res = "debug_bundle_process_never_started"]_vars

C2_Witness ==
    \E c, d \in Shards :
        /\ ops[c].op = "initiate" /\ ops[c].pc = "done"
        /\ ops[c].res = "rpk_binary_not_present"
        /\ ops[d].op = "status" /\ ops[d].pc = "done"
        /\ ops[d].res = "debug_bundle_process_never_started"
        /\ nruns = 0
        /\ rpk_process = NoProcess /\ files = {} /\ kvstore = NoMetadata

\* C3: the status of a handle is running exactly while its wait_result is
\* absent, success only when its child exited with code 0, error only when
\* the stored wait status is a non-zero exit or a signal; once the status
\* of a handle is success or error it never changes while the slot holds
\* that handle.
C3_StatusMonotonic ==
    /\ [](rpk_process # NoProcess =>
            /\ (handle_process_status(rpk_process) = "running")
                 = (rpk_process.wait_result = "none")
            /\ (handle_process_status(rpk_process) = "success")
                 = (rpk_process.wait_result = "exited_0")
            /\ handle_process_status(rpk_process) = "success"
                 => child[rpk_process.inst] = "exited_0"
            /\ (handle_process_status(rpk_process) = "error")
                 = (rpk_process.wait_result
                        \in {"exited_1", "exited_2", "signaled"}))
    /\ [][(rpk_process # NoProcess /\ rpk_process'.inst = rpk_process.inst
           /\ handle_process_status(rpk_process) # "running")
          => handle_process_status(rpk_process')
               = handle_process_status(rpk_process)]_vars

C3_Witness ==
    /\ rpk_process # NoProcess
    /\ handle_process_status(rpk_process) = "error"
    /\ child[rpk_process.inst] = "signaled"
    /\ \E c \in Shards : ops[c].op = "status" /\ ops[c].pc = "done"
                         /\ ops[c].snap.status = "running"
                         /\ ops[c].snap.job_id = rpk_process.job_id

\* The operation of caller c ended with result r in this step.
Ended(c, r) == ops'[c].pc = "done" /\ ops'[c].res = r

\* C4: when initiate installs a new handle over a previous one, the previous
\* run's bundle file, its process-output file and the KV entry are absent
\* at the spawn; and a background task whose handle is no longer in the
\* slot (the slot is empty or holds another job id) writes no file and no
\* KV entry.
C4_CleanupBeforeSpawn ==
    [][/\ (nruns' = nruns + 1 /\ rpk_process # NoProcess)
          => /\ rpk_process.output_file_path \notin files
             /\ rpk_process.process_output_file_path \notin files
             /\ kvstore = NoMetadata
             /\ kvstore' = NoMetadata
             /\ files' = files
       /\ \A i \in Insts :
            (bg'[i] # bg[i] /\ bg[i].pc # "none" /\ rpk_process.inst # i
             /\ rpk_process.job_id # bg[i].job_id)
            => /\ files' = files
               /\ kvstore' = kvstore
               /\ kv_rollback' = kv_rollback
       /\ \A i \in Insts :
            (bg'[i].pc # "none" /\ rpk_process'.inst > i
             /\ rpk_process'.job_id # bg'[i].job_id)
            => /\ form_debug_bundle_file_path(debug_bundle_dir, bg'[i].job_id) \notin files'
               /\ form_process_output_file_path(debug_bundle_dir, bg'[i].job_id) \notin files'
               /\ kvstore'.job_id # bg'[i].job_id]_vars

C4_Witness ==
    /\ rpk_process.inst = 2
    /\ bg[1].job_id # bg[2].job_id
    /\ bg[1].pc = "skipped"
    /\ child[1] = "exited_0"
    /\ \E c \in Shards : ops[c].op = "initiate" /\ ops[c].pc = "done"
                         /\ ops[c].res = "success"
                         /\ ops[c].job_id = bg[2].job_id

\* C5: cancel(job_id), once it holds the units, returns
\* debug_bundle_process_never_started with no handle, else
\* debug_bundle_process_not_running when the handle is not running (whatever
\* the job id), else job_id_not_recognized on another job id, else calls
\* terminate and returns success (the child is gone), 
\* debug_bundle_process_not_running (the child had already completed) or
\* internal_error; no step of cancel changes the handle slot.
C5_Cancel ==
    [][\A c \in Shards :
        (StepOf(c) /\ ops[c].pc \in {"cancel_check", "terminate"})
        => /\ UNCHANGED <<rpk_process, files, kvstore>>
           /\ ops[c].pc = "cancel_check" =>
                /\ UNCHANGED child
                /\ IF rpk_process = NoProcess
                   THEN Ended(c, "debug_bundle_process_never_started")
                   ELSE IF rpk_process.wait_result # "none"
                   THEN Ended(c, "debug_bundle_process_not_running")
                   ELSE IF ops[c].job_id # rpk_process.job_id
                   THEN Ended(c, "job_id_not_recognized")
                   ELSE ops'[c].pc = "terminate"
           /\ ops[c].pc = "terminate" =>
                /\ ops'[c].pc = "done"
                /\ ops'[c].res \in {"success", "internal_error",
                                    "debug_bundle_process_not_running"}
                /\ ops'[c].res = "success"
                     => /\ child[ops[c].inst] = "running"
                        /\ child'[ops[c].inst] = "signaled"
                /\ ops'[c].res = "debug_bundle_process_not_running"
                     => child[ops[c].inst] # "running" /\ UNCHANGED child
                /\ ops'[c].res = "internal_error" => UNCHANGED child]_vars

C5_Witness ==
    \E c \in Shards :
        /\ ops[c].op = "cancel" /\ ops[c].pc = "done"
        /\ ops[c].res = "debug_bundle_process_not_running"
        /\ rpk_process # NoProcess
        /\ rpk_process.wait_result # "none"
        /\ ops[c].job_id # rpk_process.job_id

\* C6: path(job_id), once it holds the units, returns
\* debug_bundle_process_never_started with no handle, else
\* debug_bundle_process_running, else process_failed for a failed run, else
\* job_id_not_recognized on another job id, else internal_error when the
\* bundle file is missing, else the bundle file path of the handle.
C6_Path ==
    [][\A c \in Shards :
        (StepOf(c) /\ ops[c].pc \in {"path_check", "path_exists"})
        => /\ UNCHANGED <<rpk_process, files, kvstore, child>>
           /\ ops[c].pc = "path_check" =>
                IF rpk_process = NoProcess
                THEN Ended(c, "debug_bundle_process_never_started")
                ELSE IF rpk_process.wait_result = "none"
                THEN Ended(c, "debug_bundle_process_running")
                ELSE IF rpk_process.wait_result # "exited_0"
                THEN Ended(c, "process_failed")
                ELSE IF ops[c].job_id # rpk_process.job_id
                THEN Ended(c, "job_id_not_recognized")
                ELSE ops'[c].pc = "path_exists"
           /\ ops[c].pc = "path_exists" =>
                IF form_debug_bundle_file_path(debug_bundle_dir, ops[c].job_id) \in files
                THEN /\ Ended(c, "success")
                     /\ ops'[c].snap.file_name
                          = form_debug_bundle_file_path(debug_bundle_dir, ops[c].job_id)
                     /\ rpk_process.job_id = ops[c].job_id
                     /\ rpk_process.wait_result = "exited_0"
                ELSE Ended(c, "internal_error")]_vars

C6_Witness ==
    \E c \in Shards :
        /\ ops[c].op = "path" /\ ops[c].pc = "done"
        /\ ops[c].res = "job_id_not_recognized"
        /\ rpk_process.inst = 2
        /\ rpk_process.wait_result = "exited_0"
        /\ ops[c].job_id = bg[1].job_id
        /\ bg[1].job_id # bg[2].job_id

\* C7: delete(job_id), once it holds the units, returns
\* debug_bundle_process_never_started with no handle, else
\* debug_bundle_process_running, else job_id_not_recognized on another job
\* id; for the job of a finished handle (success or error) it returns
\* success with the bundle file absent, or internal_error when the removal
\* of the existing file failed; with the bundle file already absent it
\* returns success. No step of delete changes the handle slot, the KV entry
\* or any file but the bundle file.
C7_Delete ==
    [][\A c \in Shards :
        (StepOf(c) /\ ops[c].pc \in {"delete_check", "delete_remove"})
        => /\ UNCHANGED <<rpk_process, kvstore, kv_rollback, child>>
           /\ files' \subseteq files
           /\ (files \ files') \subseteq {rpk_process.output_file_path}
           /\ ops[c].pc = "delete_check" =>
                /\ files' = files
                /\ IF rpk_process = NoProcess
                   THEN Ended(c, "debug_bundle_process_never_started")
                   ELSE IF rpk_process.wait_result = "none"
                   THEN Ended(c, "debug_bundle_process_running")
                   ELSE IF ops[c].job_id # rpk_process.job_id
                   THEN Ended(c, "job_id_not_recognized")
                   ELSE ops'[c].pc = "delete_remove"
           /\ ops[c].pc = "delete_remove" =>
                /\ ops'[c].pc = "done"
                /\ ops'[c].res \in {"success", "internal_error"}
                /\ ops'[c].res = "success"
                     => form_debug_bundle_file_path(debug_bundle_dir, ops[c].job_id) \notin files'
                /\ ops'[c].res = "internal_error"
                     => /\ form_debug_bundle_file_path(debug_bundle_dir, ops[c].job_id) \in files
                        /\ files' = files
                /\ form_debug_bundle_file_path(debug_bundle_dir, ops[c].job_id) \notin files
                     => ops'[c].res = "success"]_vars

C7_Witness ==
    \E c, d \in Shards :
        /\ c # d
        /\ ops[c].op = "delete" /\ ops[c].pc = "done" /\ ops[c].res = "success"
        /\ ops[d].op = "delete" /\ ops[d].pc = "done" /\ ops[d].res = "success"
        /\ ops[c].job_id = rpk_process.job_id
        /\ ops[d].job_id = rpk_process.job_id
        /\ handle_process_status(rpk_process) = "error"
        /\ rpk_process.output_file_path \notin files

\* An operation of caller c is in flight on the service instance of shard s:
\* on its own instance from the call to the return, on the service shard's
\* instance once invoke_on has delivered it.
InFlightOn(c, s) ==
    \/ c = s /\ ops[c].pc \notin {"idle", "done"}
    \/ s = service_shard /\ ops[c].pc \notin {"idle", "done", "invoke_on"}

\* C8: stop() of an instance does not complete while a public operation is
\* in flight on that instance (every operation holds a gate ticket from its
\* entry to its return).
C8_StopWaitsForOperations ==
    \A s \in Shards :
        stop_pc[s] = "stopped" => \A c \in Shards : ~InFlightOn(c, s)

\* C9: once the metadata write of a finished job has completed and its
\* rollback, if one was scheduled, has run, the KV entry and the
\* process-output file both exist or both do not.
C9_MetadataConsistent ==
    \A i \in Insts :
        (bg[i].pc = "md_done" /\ ~kv_rollback)
        => ((kvstore # NoMetadata)
            <=> (rpk_process.process_output_file_path \in files))

\* Handle i is the one in the slot, its child wrote the bundle file and
\* exited with code 0.
RanToSuccess(i) ==
    /\ rpk_process.inst = i
    /\ child[i] = "exited_0"
    /\ rpk_process.output_file_path \in files

\* What status() reports success with a file_size from, and both pieces of
\* the metadata of handle i.
ReportedAndRecorded(i) ==
    /\ rpk_process.inst = i
    /\ handle_process_status(rpk_process) = "success"
    /\ rpk_process.output_file_path \in files
    /\ kvstore # NoMetadata
    /\ kvstore.job_id = rpk_process.job_id
    /\ rpk_process.process_output_file_path \in files

\* C10 as stated: once the child of the last handle has written the
\* bundle file and exited with code 0 (no initiate can follow, nobody calls
\* stop), the status becomes success with the bundle file measurable and the
\* KV entry and the process-output file both exist.
C10_Original ==
    \A i \in Insts :
        (RanToSuccess(i) /\ nruns = MaxRuns) ~> ReportedAndRecorded(i)

\* The child of handle i, the one in the slot, was terminated by a cancel
\* that returned success.
Cancelled(i) == rpk_process.inst = i /\ child[i] = "signaled"

\* C11: once cancel(J) has returned success for the running job J (its child
\* is terminated), the status of J eventually becomes error; no step of a
\* cancel changes the handle (the status moves only when wait() resolves),
\* and a cancel that finds the status error returns
\* debug_bundle_process_not_running.
C11_CancelWhileRunning ==
    /\ \A i \in Insts :
         Cancelled(i)
         ~> (rpk_process.inst = i /\ handle_process_status(rpk_process) = "error")
    /\ [][\A c \in Shards :
            (StepOf(c) /\ ops[c].op = "cancel")
            => /\ UNCHANGED rpk_process
               /\ (ops[c].pc = "cancel_check" /\ process_status = "error")
                  => Ended(c, "debug_bundle_process_not_running")]_vars

\* The operation of caller c has been called and has not returned.
InFlight(c) == ops[c].pc \notin {"idle", "done"}

\* C12: an initiate called on a non-service shard spawns exactly one child
\* when it returns success and none otherwise, the spawn runs on the service
\* shard and the result is back on the calling shard; a handle is only ever
\* held by the service shard's instance, and every step of an operation that
\* changes the handle, a child, the background tasks, the files or the KV
\* entry runs on the service shard.
C12_CrossShard ==
    /\ [](/\ rpk_process # NoProcess => rpk_process.shard = service_shard
          /\ \A c \in Shards :
               /\ ops[c].pc \in {"idle", "done", "invoke_on"} => ops[c].shard = c
               /\ (InFlight(c) /\ ops[c].pc # "invoke_on")
                  => ops[c].shard = service_shard)
    /\ [][\A c \in Shards :
            (StepOf(c) /\ InFlight(c))
            => /\ ~UNCHANGED <<rpk_process, child, bg, files, kvstore, nruns>>
                  => ops[c].shard = service_shard
               /\ IF ops[c].op = "initiate" /\ Ended(c, "success")
                  THEN /\ nruns' = nruns + 1
                       /\ child' = [child EXCEPT ![nruns'] = "running"]
                       /\ rpk_process'.inst = nruns'
                       /\ rpk_process'.shard = service_shard
                  ELSE UNCHANGED <<nruns, child>> \/ ops[c].op = "cancel"]_vars

C12_Witness ==
    \E c \in Shards :
        /\ c # service_shard
        /\ ops[c].op = "initiate" /\ ops[c].pc = "done"
        /\ ops[c].res = "success" /\ ops[c].shard = c
        /\ nruns = 1
        /\ rpk_process.inst = 1 /\ rpk_process.shard = service_shard
        /\ child[1] = "running"

\* The waiters and the holder of the control mutex.
Queued == {mutex[n] : n \in 1 .. Len(mutex)}

\* a is before b in the queue of the control mutex.
QueuedAhead(a, b) ==
    \E m, n \in 1 .. Len(mutex) : m < n /\ mutex[m] = a /\ mutex[n] = b

\* The step is the entry of a status() of caller b on the service shard,
\* where it reads the handle.
StatusReads(b) ==
    /\ StepOf(b)
    /\ ops'[b].op = "status"
    /\ ops[b].pc \in {"idle", "done", "invoke_on"}
    /\ ops'[b].pc \in {"file_size", "done"}
    /\ ops'[b].res # "gate_closed_exception"

\* The control mutex is first-come-first-served for what queues on it: the
\* queue grows at its tail and shrinks at its head, a call or a background
\* task queued behind another takes no step before the other has returned,
\* whatever shard it was called on, and the handle in the slot is replaced
\* only by the call at the head.
MutexFifo ==
    /\ \/ mutex' = mutex
       \/ mutex # <<>> /\ mutex' = Tail(mutex)
       \/ \E id \in ({OpId(c) : c \in Shards} \cup {TaskId(i) : i \in Insts})
             \ Queued : mutex' = Append(mutex, id)
    /\ \A a, b \in Shards :
         QueuedAhead(OpId(a), OpId(b)) => ops'[b] = ops[b]
    /\ \A a \in Shards, i \in Insts :
         /\ QueuedAhead(OpId(a), TaskId(i)) => bg'[i] = bg[i]
         /\ QueuedAhead(TaskId(i), OpId(a)) => ops'[a] = ops[a]
    /\ rpk_process'.inst # rpk_process.inst
       => \E c \in Shards : Head(mutex) = OpId(c) /\ StepOf(c)

\* C13 as stated, status() included: a status() never reads the handle
\* while an initiate or a cancel that reached the mutex before it has not
\* returned.
C13_Original ==
    [][/\ MutexFifo
       /\ \A a, b \in Shards :
            (StatusReads(b) /\ OpId(a) \in Queued
             /\ ops[a].op \in {"initiate", "cancel"})
            => FALSE]_vars

\* C13: initiate, cancel, path and delete calls and the background task
\* are served first-come-first-served at the control mutex of the service
\* shard, whatever shard they were called on; status() takes no units and
\* is not ordered with them.
C13_Fifo == [][MutexFifo]_vars

C13_Witness ==
    \E a \in Shards :
        /\ a # service_shard
        /\ Len(mutex) >= 2
        /\ mutex[1] = OpId(a)
        /\ mutex[2] = OpId(service_shard)
        /\ ops[a].op = "initiate" /\ ops[a].pc = "spawn"
        /\ ops[service_shard].op = "cancel"
        /\ ops[service_shard].pc = "cancel_check"

\* C14: every snapshot status() returns describes one handle in one state
\* it had: the job id and the file name are those of the handle whose status
\* was read, that handle is still the one in the slot, and the status is its
\* status.
C14_ConsistentSnapshot ==
    [][\A c \in Shards :
        (StepOf(c) /\ ops'[c].op = "status" /\ Ended(c, "success"))
        => LET h == IF ops[c].pc = "file_size_ok"
                    THEN ops[c].inst ELSE rpk_process.inst
           IN /\ rpk_process'.inst = h
              /\ ops'[c].snap.job_id = JobOf(h)
              /\ ops'[c].snap.file_name = form_debug_bundle_file_path(debug_bundle_dir, JobOf(h))
              /\ ops'[c].snap.status = handle_process_status(rpk_process')
              /\ ops'[c].snap.file_size = (ops'[c].snap.status = "success")]_vars

\* The handle in the slot has finished (its status is success or error).
Terminal == rpk_process # NoProcess /\ rpk_process.wait_result # "none"

\* A status() of caller c that read the handle now in the slot returns in
\* this step (not refused by a closed gate).
StatusEnds(c) ==
    /\ StepOf(c)
    /\ ops'[c].op = "status"
    /\ ops'[c].pc = "done"
    /\ ops'[c].res # "gate_closed_exception"
    /\ ops[c].pc \in {"file_size_ok", "file_size_failed"}
       => ops[c].inst = rpk_process.inst

\* The slot changes only in the spawn step of an initiate, and when it held
\* a handle the files and the KV entry of that handle are gone by then.
OnlyInitiateOverwrites ==
    rpk_process'.inst # rpk_process.inst
    => /\ \E c \in Shards :
            StepOf(c) /\ ops[c].op = "initiate" /\ ops[c].pc = "spawn"
       /\ rpk_process # NoProcess
          => /\ rpk_process.output_file_path \notin files
             /\ rpk_process.process_output_file_path \notin files
             /\ kvstore = NoMetadata

\* C15 as stated: every status() on a finished handle returns the snapshot.
C15_Original ==
    [][/\ OnlyInitiateOverwrites
       /\ \A c \in Shards :
            (Terminal /\ StatusEnds(c))
            => /\ Ended(c, "success")
               /\ ops'[c].snap.job_id = rpk_process.job_id
               /\ ops'[c].snap.status = handle_process_status(rpk_process)]_vars

\* C15: a status() on a finished handle that is still in the slot returns
\* the snapshot with its job id and status, whatever cancel, path, delete
\* and status calls came before, except that for a handle in success whose
\* bundle file is missing when file_size runs (a delete removed it, or the
\* child never wrote it) it returns internal_error; a finished handle stays
\* as it is until the spawn step of an initiate replaces it, after the
\* cleanup of its files and KV entry.
C15_TerminalQueries ==
    [][/\ OnlyInitiateOverwrites
       /\ (Terminal /\ rpk_process'.inst = rpk_process.inst)
          => rpk_process' = rpk_process
       /\ \A c \in Shards :
            (Terminal /\ StatusEnds(c))
            => \/ /\ Ended(c, "success")
                  /\ ops'[c].snap.job_id = rpk_process.job_id
                  /\ ops'[c].snap.status = handle_process_status(rpk_process)
               \/ /\ Ended(c, "internal_error")
                  /\ ops[c].pc = "file_size_failed"
                  /\ handle_process_status(rpk_process) = "success"]_vars

C15_Witness ==
    \E c, d \in Shards :
        /\ ops[c].op = "status" /\ ops[c].pc = "done"
        /\ ops[c].res = "internal_error"
        /\ ops[d].op = "delete" /\ ops[d].pc = "done" /\ ops[d].res = "success"
        /\ ops[d].job_id = rpk_process.job_id
        /\ rpk_process.wait_result = "exited_0"
        /\ child[rpk_process.inst] = "exited_0"
        /\ rpk_process.output_file_path \notin files

\* An initiate of caller c for a job id other than the one of the finished
\* handle in the slot returns in this step, after the gate let it in, the
\* binary was found and cleanup_previous_run went through.
InitiateAfterTerminalEnds(c) ==
    /\ StepOf(c)
    /\ Terminal
    /\ ops[c].op = "initiate"
    /\ ops'[c].op = "initiate"
    /\ ops'[c].pc = "done"
    /\ ops[c].job_id # rpk_process.job_id
    /\ ops[c].pc \in {"binary_present", "mkdir", "spawn"}

\* The new run is in the slot and its child is running.
Installed(c) ==
    /\ Ended(c, "success")
    /\ rpk_process'.job_id = ops[c].job_id
    /\ rpk_process'.wait_result = "none"
    /\ rpk_process'.inst # rpk_process.inst
    /\ child'[rpk_process'.inst] = "running"

\* C16 as stated: with the binary present and the cleanup done, an initiate
\* with a new job id on a finished handle returns success and installs a
\* running handle.
C16_Original ==
    [][\A c \in Shards : InitiateAfterTerminalEnds(c) => Installed(c)]_vars

\* C16: with the binary present and the cleanup done, an initiate with a new
\* job id on a finished handle is never refused as
\* debug_bundle_process_running; it returns success and installs a running
\* handle for its job id, unless creating the storage directory fails
\* (internal_error), the parameters are rejected (invalid_parameters), or the
\* spawn fails (internal_error, the slot is left empty).
C16_NeverStuck ==
    [][\A c \in Shards :
        InitiateAfterTerminalEnds(c)
        => \/ Installed(c)
           \/ /\ ops[c].pc = "mkdir"
              /\ ops'[c].res \in {"internal_error", "invalid_parameters"}
              /\ rpk_process' = rpk_process
           \/ /\ ops[c].pc = "spawn"
              /\ ops'[c].res = "internal_error"
              /\ rpk_process' = NoProcess]_vars

C16_Witness ==
    \E c \in Shards :
        /\ ops[c].op = "initiate" /\ ops[c].pc = "done"
        /\ ops[c].res = "success"
        /\ rpk_process.inst = 2
        /\ rpk_process.job_id = ops[c].job_id
        /\ rpk_process.wait_result = "none"
        /\ child[2] = "running"
        /\ child[1] \in {"exited_0", "exited_2", "signaled"}
        /\ JobOf(1) # JobOf(2)

\* The optional groups in their fixed order, with the number of arguments a
\* set field contributes.
FieldOrder ==
    <<"authn_options", "controller_logs_size_limit_bytes",
      "cpu_profiler_wait_seconds", "logs_since", "logs_size_limit_bytes",
      "logs_until", "metrics_interval_seconds", "partition", "tls_enabled",
      "tls_insecure_skip_verify", "k8s_namespace">>

GroupSize(f) ==
    IF f = "authn_options" THEN 3
    ELSE IF f \in {"tls_enabled", "tls_insecure_skip_verify"} THEN 1
    ELSE 2

\* The place in argv after the fixed prefix and the groups of the set
\* fields among the first n of FieldOrder.
RECURSIVE Offset(_)
Offset(n) ==
    IF n = 0 THEN 6
    ELSE Offset(n - 1)
         + (IF params[FieldOrder[n]].has_value
            THEN GroupSize(FieldOrder[n]) ELSE 0)

\* The number a base-10 numeral denotes.
RECURSIVE Numeral(_)
Numeral(s) ==
    IF s = <<>> THEN 0
    ELSE 10 * Numeral(SubSeq(s, 1, Len(s) - 1))
         + (CHOOSE d \in 0 .. 9 : Digits[d + 1] = s[Len(s)])

\* a is the base-10 numeral of v followed by the unit.
IsQuantity(a, v, unit) ==
    /\ Len(a) >= 2
    /\ a[Len(a)] = unit
    /\ \A n \in 1 .. (Len(a) - 1) : a[n] \in Digit
    /\ Len(a) > 2 => a[1] # "0"
    /\ Numeral(SubSeq(a, 1, Len(a) - 1)) = v

\* a is key=value.
IsKeyValue(a, key, value) ==
    /\ Len(a) = Len(key) + 1 + Len(value)
    /\ SubSeq(a, 1, Len(key)) = key
    /\ a[Len(key) + 1] = "="
    /\ SubSeq(a, Len(key) + 2, Len(a)) = value

\* The partitions, one space between two of them.
RECURSIVE SpaceJoined(_)
SpaceJoined(ps) ==
    IF ps = <<>> THEN <<>>
    ELSE IF Len(ps) = 1 THEN ps[1]
    ELSE SpaceJoined(SubSeq(ps, 1, Len(ps) - 1)) \o <<" ">> \o ps[Len(ps)]

\* The arguments from place o on are the group of field f.
IsGroup(rv, o, f) ==
    LET v == params[f].value
    IN CASE f = "authn_options" ->
              /\ IsKeyValue(rv[o + 1], <<"-", "X", "u", "s", "e", "r">>, v.username)
              /\ IsKeyValue(rv[o + 2], <<"-", "X", "p", "a", "s", "s">>, v.password)
              /\ IsKeyValue(rv[o + 3],
                  <<"-", "X", "s", "a", "s", "l", ".", "m", "e", "c", "h", "a", "n", "i", "s", "m">>, v.mechanism)
         [] f = "controller_logs_size_limit_bytes" ->
              /\ rv[o + 1] =
                  <<"-", "-", "c", "o", "n", "t", "r", "o", "l", "l", "e", "r", "-", "l", "o", "g", "s", "-", "s", "i", "z", "e", "-", "l", "i", "m", "i", "t">>
              /\ IsQuantity(rv[o + 2], v, "B")
         [] f = "cpu_profiler_wait_seconds" ->
              /\ rv[o + 1] =
                  <<"-", "-", "c", "p", "u", "-", "p", "r", "o", "f", "i", "l", "e", "r", "-", "w", "a", "i", "t">>
              /\ IsQuantity(rv[o + 2], v, "s")
         [] f = "logs_since" ->
              /\ rv[o + 1] = <<"-", "-", "l", "o", "g", "s", "-", "s", "i", "n", "c", "e">>
              /\ rv[o + 2] = v
         [] f = "logs_size_limit_bytes" ->
              /\ rv[o + 1] =
                  <<"-", "-", "l", "o", "g", "s", "-", "s", "i", "z", "e", "-", "l", "i", "m", "i", "t">>
              /\ IsQuantity(rv[o + 2], v, "B")
         [] f = "logs_until" ->
              /\ rv[o + 1] = <<"-", "-", "l", "o", "g", "s", "-", "u", "n", "t", "i", "l">>
              /\ rv[o + 2] = v
         [] f = "metrics_interval_seconds" ->
              /\ rv[o + 1] =
                  <<"-", "-", "m", "e", "t", "r", "i", "c", "s", "-", "i", "n", "t", "e", "r", "v", "a", "l">>
              /\ IsQuantity(rv[o + 2], v, "s")
         [] f = "partition" ->
              /\ rv[o + 1] = <<"-", "-", "p", "a", "r", "t", "i", "t", "i", "o", "n">>
              /\ rv[o + 2] = SpaceJoined(v)
         [] f = "tls_enabled" ->
              IsKeyValue(rv[o + 1],
                  <<"-", "X", "t", "l", "s", ".", "e", "n", "a", "b", "l", "e", "d">>,
                         IF v THEN <<"t", "r", "u", "e">> ELSE <<"f", "a", "l", "s", "e">>)
         [] f = "tls_insecure_skip_verify" ->
              IsKeyValue(rv[o + 1],
                  <<"-", "X", "t", "l", "s", ".", "i", "n", "s", "e", "c", "u", "r", "e", "_", "s", "k", "i", "p", "_", "v", "e", "r", "i", "f", "y">>,
                         IF v THEN <<"t", "r", "u", "e">> ELSE <<"f", "a", "l", "s", "e">>)
         [] f = "k8s_namespace" ->
              /\ rv[o + 1] = <<"-", "-", "n", "a", "m", "e", "s", "p", "a", "c", "e">>
              /\ rv[o + 2] = v

\* C17: the argv of an accepted parameter record is the fixed prefix
\* <collector_path> debug bundle --output <bundle_file> --verbose followed
\* by the groups of the set fields, each in its form and in the fixed order,
\* and by nothing else: an unset field contributes no argument.
C17_ArgvOrder ==
    argv_pc \in {"built", "logged"}
    => LET rv == args.rv
       IN /\ args.error = ""
          /\ Len(rv) = Offset(Len(FieldOrder))
          /\ SubSeq(rv, 1, 6)
             = <<rpk_path, <<"d", "e", "b", "u", "g">>, <<"b", "u", "n", "d", "l", "e">>,
                 <<"-", "-", "o", "u", "t", "p", "u", "t">>, debug_bundle_file_path,
                 <<"-", "-", "v", "e", "r", "b", "o", "s", "e">>>>
          /\ \A n \in 1 .. Len(FieldOrder) :
                params[FieldOrder[n]].has_value
                => IsGroup(rv, Offset(n - 1), FieldOrder[n])

C17_Witness ==
    /\ argv_pc = "built"
    /\ \A f \in Fields : f # "logs_until" <=> params[f].has_value
    /\ params["logs_size_limit_bytes"].value = 100
    /\ Len(args.rv) = 6 + 3 + 2 + 2 + 2 + 2 + 2 + 2 + 1 + 1 + 2

\* The namespace is empty, longer than 63 characters, begins or ends with
\* a character that is not alphanumeric, or holds a character outside
\* [A-Za-z0-9-].
NotALabel(ns) ==
    \/ ns = <<>>
    \/ Len(ns) > 63
    \/ ns[1] \notin Lower \cup Upper \cup Digit
    \/ ns[Len(ns)] \notin Lower \cup Upper \cup Digit
    \/ \E n \in 1 .. Len(ns) : ns[n] \notin Lower \cup Upper \cup Digit \cup {"-"}

\* C18: with k8s_namespace set, the builder returns invalid_parameters
\* exactly when the value is empty, longer than 63 characters, begins or
\* ends with a non-alphanumeric character or holds a character outside
\* [A-Za-z0-9-]; every other value is accepted and the argv ends with
\* --namespace <value>.
C18_Rfc1123Gate ==
    (argv_pc \in {"built", "invalid", "logged"} /\ params["k8s_namespace"].has_value)
    => LET ns == params["k8s_namespace"].value
           rv == args.rv
       IN /\ args.error = "invalid_parameters" <=> NotALabel(ns)
          /\ args.error \in {"", "invalid_parameters"}
          /\ args.error = ""
             => /\ Len(rv) >= 8
                /\ rv[Len(rv) - 1] = <<"-", "-", "n", "a", "m", "e", "s", "p", "a", "c", "e">>
                /\ rv[Len(rv)] = ns

C18_Witness ==
    /\ argv_pc = "invalid"
    /\ params["k8s_namespace"].has_value
    /\ Len(params["k8s_namespace"].value) = 64
    /\ \A n \in 1 .. 64 : params["k8s_namespace"].value[n] \in {"a", "Z", "9"}
    /\ args.error = "invalid_parameters"

\* The text occurs somewhere in the string.
Occurs(text, str) ==
    \E i \in 1 .. Len(str), j \in 1 .. Len(str) : SubSeq(str, i, j) = text

PassFlag == <<"-", "X", "p", "a", "s", "s">>

WithoutPassFlag(a) == ~Occurs(PassFlag, a)

\* C19: the logged line holds no -Xpass text, so no argument that contains
\* it and in particular not the -Xpass=<password> argument, and it is the
\* arguments without that text, in their order, one space between two of
\* them.
C19_Redaction ==
    argv_pc = "logged"
    => /\ ~Occurs(PassFlag, log_msg)
       /\ \A n \in 1 .. Len(args.rv) :
            Occurs(PassFlag, args.rv[n])
            => ~Occurs(args.rv[n], log_msg)
       /\ log_msg = LogPrefix \o SpaceJoined(SelectSeq(args.rv, WithoutPassFlag))

C19_Witness ==
    /\ argv_pc = "logged"
    /\ params["authn_options"].has_value
    /\ params["authn_options"].value.password = <<"p", " ", "w">>
    /\ Occurs(PassFlag, params["authn_options"].value.username)
    /\ Len(SelectSeq(args.rv, WithoutPassFlag)) = Len(args.rv) - 2
    /\ Len(args.rv) > 9

\* C20: the metadata write of a finished run, when no file-system or KV
\* call fails, puts the RunMetadata entry into the KV store: with the
\* SHA-256 of the bundle file when the run exited with code 0 and the
\* bundle file exists, with an empty checksum in every other case (non-zero
\* exit, signalled, exit 0 with the bundle file missing).
C20_MetadataChecksum ==
    [][\A i \in Insts :
        (/\ bg[i].pc \in {"md_exists", "md_put"}
         /\ bg'[i].pc # bg[i].pc
         /\ nfaults' = nfaults)
        => \/ bg[i].pc = "md_exists" /\ bg'[i].pc = "md_put"
           \/ /\ bg'[i].pc = "md_write"
              /\ kvstore' # NoMetadata
              /\ kvstore'.job_id = bg[i].job_id
              /\ kvstore'.wait_status = rpk_process.wait_result
              /\ kvstore'.checksum
                 = IF /\ rpk_process.wait_result = "exited_0"
                      /\ rpk_process.output_file_path \in files
                   THEN "sha256" ELSE "empty"]_vars

\* C21: an initiate that returns invalid_parameters leaves everything as it
\* found it: no child is spawned, no background task is scheduled, the
\* handle slot is unchanged, and the files on disk and the KV entry are the
\* ones it found when it passed its checks.
C21_NoPartialSideEffects ==
    [][\A c \in Shards :
        (StepOf(c) /\ ops[c].op = "initiate" /\ Ended(c, "invalid_parameters"))
        => /\ rpk_process' = rpk_process
           /\ child' = child
           /\ bg' = bg
           /\ nruns' = nruns
           /\ files' = ops[c].before.files
           /\ kvstore' = ops[c].before.kvstore]_vars

WaitThrew == rpk_process # NoProcess /\ rpk_process.wait_result = "exited_1"

\* C23: after wait() threw, the handle holds exited{1}: a status() that
\* returns reports error for that job, a path() for that job returns
\* process_failed, the background task of the run has ended without
\* touching the KV store, and nothing puts a metadata entry while that
\* handle is in the slot.
C23_WaitException ==
    [][/\ WaitThrew' => bg'[rpk_process'.inst].pc = "done"
       /\ (WaitThrew /\ kvstore' # kvstore) => kvstore' = NoMetadata
       /\ \A c \in Shards :
            /\ (WaitThrew /\ StatusEnds(c))
               => /\ Ended(c, "success")
                  /\ ops'[c].snap.job_id = rpk_process.job_id
                  /\ ops'[c].snap.status = "error"
            /\ (/\ WaitThrew
                /\ StepOf(c)
                /\ ops[c].op = "path"
                /\ ops[c].pc = "path_check"
                /\ ops[c].job_id = rpk_process.job_id)
               => Ended(c, "process_failed")]_vars

\* A status, cancel, path or delete of caller c runs its checks in this
\* step (it was not refused by a closed gate).
ChecksRun(c) ==
    /\ StepOf(c)
    /\ ops'[c].op \in {"status", "cancel", "path", "delete"}
    /\ ops'[c].res # "gate_closed_exception"
    /\ \/ ops'[c].op = "status" /\ ops[c].pc \in {"idle", "done", "invoke_on"}
                                /\ ops'[c].pc # "invoke_on"
       \/ ops[c].pc \in {"cancel_check", "path_check", "delete_check"}

\* C24: an initiate whose spawn fails returns internal_error and leaves the
\* slot empty, whatever it held, with no child and no background task
\* added; and a status, cancel, path or delete that runs its checks on the
\* empty slot returns debug_bundle_process_never_started.
C24_SpawnFailure ==
    [][\A c \in Shards :
        /\ (/\ StepOf(c)
            /\ ops[c].op = "initiate"
            /\ ops[c].pc = "spawn"
            /\ ~Ended(c, "success"))
           => /\ Ended(c, "internal_error")
              /\ rpk_process' = NoProcess
              /\ bg' = bg
              /\ child' = child
              /\ nruns' = nruns
        /\ (rpk_process = NoProcess /\ ChecksRun(c))
           => Ended(c, "debug_bundle_process_never_started")]_vars

C24_Witness ==
    \E c, d \in Shards :
        /\ nruns = 1
        /\ rpk_process = NoProcess
        /\ bg[2] = NoTask
        /\ ops[c].op = "initiate" /\ ops[c].pc = "done"
        /\ ops[c].res = "internal_error"
        /\ ops[d].op \in {"status", "cancel", "path", "delete"}
        /\ ops[d].pc = "done"
        /\ ops[d].res = "debug_bundle_process_never_started"

TaskTickets(i) ==
    IF bg[i].pc \in {"waiting", "resolved"} THEN 1
    ELSE IF bg[i].pc \in {"none", "done"} THEN 0
    ELSE 2

\* Task i meets a failure in this step: a collaborator throws, or
\* _gate.hold() finds the gate closed.
TaskFails(i) ==
    \/ nfaults' # nfaults
    \/ bg[i].pc = "resolved" /\ gate_closed[service_shard]

\* C26: a step of a background task never changes the result of an
\* operation; a failure it meets (wait(), _gate.hold(), the KV put, the
\* write of the process-output file) aborts nothing and ends the task, at
\* once with its ticket given back or through its release step, which hands
\* back the units of the mutex and both tickets.
C26_TaskSwallowsErrors ==
    [][\A i \in Insts :
        (bg'[i] # bg[i] /\ bg[i].pc # "none")
        => /\ ops' = ops
           /\ TaskFails(i)
              => /\ aborted' = aborted
                 /\ bg'[i].pc \in {"done", "md_done"}
                 /\ bg'[i].pc = "done"
                    => /\ \A n \in 1 .. Len(mutex') : mutex'[n] # TaskId(i)
                       /\ gate_count'[service_shard]
                          = gate_count[service_shard] - TaskTickets(i)
                 /\ bg'[i].pc = "md_done"
                    => mutex' # <<>> /\ Head(mutex') = TaskId(i)
           /\ bg[i].pc = "md_done"
              => /\ bg'[i].pc = "done"
                 /\ Head(mutex) = TaskId(i)
                 /\ mutex' = Tail(mutex)
                 /\ gate_count'[service_shard]
                    = gate_count[service_shard] - TaskTickets(i)]_vars

C26_Witness ==
    /\ bg[1].pc = "done"
    /\ nfaults = 1
    /\ kv_rollback
    /\ kvstore # NoMetadata
    /\ mutex = <<>>
    /\ gate_count[service_shard] = 0
    /\ \E c \in Shards : ops[c].op = "initiate" /\ ops[c].res = "success"
    /\ aborted = "none"

\* The directory a path lies in.
parent_path(path) == SubSeq(path, 1, Len(path) - 1)

\* C27: initiate copies _debug_bundle_dir once, when cleanup_previous_run
\* is over, and keeps the copy whatever the configuration does afterwards;
\* the directory it ensures is that copy, and the handle it installs has
\* the bundle path <dir>/<job_id>.zip and the process-output path
\* <dir>/<job_id>.out for that copy. Every handle has both paths under one
\* directory that is on disk, and the cleanup of a later initiate removes
\* files only at the paths the handle stores, and does remove them there.
C27_StorageDirSnapshot ==
    [][/\ rpk_process' # NoProcess
          => \E dir \in dirs' :
                /\ rpk_process'.output_file_path
                   = form_debug_bundle_file_path(dir, rpk_process'.job_id)
                /\ rpk_process'.process_output_file_path
                   = form_process_output_file_path(dir, rpk_process'.job_id)
       /\ \A c \in Shards :
           /\ (ops[c].pc # "mkdir" /\ ops'[c].pc = "mkdir")
              => ops'[c].output_dir = debug_bundle_dir
           /\ (ops[c].pc \in {"mkdir", "spawn"}
               /\ ops'[c].pc \in {"mkdir", "spawn"})
              => ops'[c].output_dir = ops[c].output_dir
           /\ (ops[c].pc = "mkdir" /\ ops'[c].pc = "spawn")
              => ops[c].output_dir \in dirs'
           /\ (ops[c].pc = "spawn" /\ nruns' = nruns + 1)
              => /\ rpk_process'.job_id = ops[c].job_id
                 /\ parent_path(rpk_process'.output_file_path)
                    = ops[c].output_dir
                 /\ parent_path(rpk_process'.process_output_file_path)
                    = ops[c].output_dir
           /\ (ops[c].pc = "cleanup_bundle" /\ ops'[c].pc = "cleanup_out")
              => /\ files' = files \ {rpk_process.output_file_path}
           /\ (ops[c].pc = "cleanup_out" /\ ops'[c].pc = "cleanup_kv")
              => /\ files' = files \ {rpk_process.process_output_file_path}
           /\ ops[c].pc \in {"cleanup_bundle", "cleanup_out", "cleanup_kv"}
              => /\ rpk_process' = rpk_process
                 /\ files \ files' \subseteq
                        {rpk_process.output_file_path,
                         rpk_process.process_output_file_path}]_vars

\* The configuration names another directory than the one the previous run
\* wrote its bundle to, and the cleanup of the next initiate has removed
\* that bundle.
C27_Witness ==
    \E c \in Shards :
        /\ ops[c].pc = "cleanup_out"
        /\ parent_path(rpk_process.output_file_path) # debug_bundle_dir
        /\ rpk_process.output_file_path \in ops[c].before.files
        /\ rpk_process.output_file_path \notin files

\* C30: when initiate spawns the child, the path in argv[0] of the child is
\* the path initiate handed to file_exists at its start.
C30_NoBinaryPathDrift ==
    [][\A c \in Shards :
        (ops[c].pc = "spawn" /\ nruns' = nruns + 1)
        => ops[c].argv0 = ops[c].checked]_vars

\* The units of the control mutex are asked for or held only by coroutines
\* that run on the service shard: an operation called elsewhere has been
\* forwarded before it queues.
MutexOnServiceShard ==
    \A c \in Shards :
        OpId(c) \in Queued
        => /\ ops[c].shard = service_shard
           /\ ops[c].pc \notin {"idle", "invoke_on", "done"}

\* The background task of handle i is under way and wait() of its child can
\* resolve.
TaskUnderWay(i) == bg[i].pc \notin {"none", "done"} /\ child[i] # "running"

\* C28: only coroutines on the service shard queue on the control mutex,
\* every public operation that was called returns, and every background
\* task whose child has ended finishes; whoever has returned or finished
\* is no longer in the queue of the mutex.
C28_DeadlockFreedom ==
    /\ []MutexOnServiceShard
    /\ [](\A c \in Shards : ~InFlight(c) => OpId(c) \notin Queued)
    /\ [](\A i \in Insts : bg[i].pc = "done" => TaskId(i) \notin Queued)
    /\ \A c \in Shards : InFlight(c) ~> ~InFlight(c)
    /\ \A i \in Insts : TaskUnderWay(i) ~> bg[i].pc = "done"

\* C29: a step of the background task of an earlier run, taken while the
\* slot holds a later handle whose wait() has not resolved, writes neither
\* the KV entry nor a file, and no step makes the assertion
\* 'wait_result must have been set' of get_wait_result fail.
C29_SameJobOverwrite ==
    [][/\ \A i \in Insts :
            (bg'[i] # bg[i] /\ bg[i].pc # "none"
             /\ rpk_process.inst # i /\ rpk_process.wait_result = "none")
            => kvstore' = kvstore /\ files' = files
       /\ aborted' # "wait_result must have been set"]_vars

\* The step is the resumption of the status() of caller c after
\* ss::file_size: it reads the slot, and output_file when the size failed.
StatusResumes(c) ==
    /\ ops[c].op = "status"
    /\ ops[c].pc \in {"file_size_ok", "file_size_failed"}
    /\ \/ ops'[c] # ops[c]
       \/ /\ aborted = "none"
          /\ aborted' \in {"status read a null _rpk_process",
                           "status read a destroyed handle"}

\* C31: when status() resumes after ss::file_size, the slot holds a handle,
\* and the handle output_file refers to, read before the suspension, is
\* still the one in the slot when the error message is formatted from it;
\* status() never ends the process by reading an empty slot or a destroyed
\* handle.
C31_StatusReadsLiveHandle ==
    [][\A c \in Shards :
        StatusResumes(c)
        => /\ rpk_process # NoProcess
           /\ ops[c].pc = "file_size_failed"
              => rpk_process.inst = ops[c].inst
           /\ aborted' = aborted]_vars

\* The KV entry describes the handle in the slot, which is terminal.
EntryDescribesHandle(kv, p) ==
    kv # NoMetadata
    => /\ p # NoProcess
       /\ kv.job_id = p.job_id
       /\ p.wait_result # "none"
       /\ kv.wait_status = p.wait_result

\* The step is the KV put of the metadata write of a background task.
MetadataPut ==
    \E i \in Insts : bg[i].pc = "md_put" /\ bg'[i].pc = "md_write"

\* The step is the KV remove of the cleanup_previous_run of an initiate.
CleanupRemove ==
    \E c \in Shards :
        ops[c].op = "initiate" /\ ops[c].pc = "cleanup_kv"
        /\ ops'[c].pc = "mkdir"

\* The step is the KV remove the failed write of the process output left
\* behind.
RollbackRemove == kv_rollback /\ ~kv_rollback'

\* C32: whenever the KV entry exists, the slot holds a handle with the job
\* id of the entry, that handle is terminal and its wait status is the one
\* recorded; the entry is written only by the put of the background
\* metadata write and removed only by initiate's cleanup or by the
\* rollback of the write.
C32_MetadataEntry ==
    [][/\ EntryDescribesHandle(kvstore', rpk_process')
       /\ (kvstore' # kvstore /\ kvstore' # NoMetadata) => MetadataPut
       /\ (kvstore' # kvstore /\ kvstore' = NoMetadata)
          => CleanupRemove \/ RollbackRemove]_vars

====
